---- MODULE Spec2Model ----
(***************************************************************************)
(* Model of deploy-interactions: the command comparator (lib/Util.ts) and  *)
(* the multi-destination deploy (lib/Deploy.ts, the revision with dryRun). *)
(*                                                                         *)
(* An optional JavaScript property is a sequence of length at most one:    *)
(* <<>> when the property is absent (undefined), <<v>> when it is v.       *)
(***************************************************************************)
EXTENDS Integers, Sequences, FiniteSets, TLC

Absent == <<>>

Some(v) == <<v>>

\* ApplicationCommandType
ChatInput == 1

User == 2

Message == 3

\* ApplicationCommandOptionType
OptSubcommand == 1

OptSubcommandGroup == 2

OptString == 3

OptInteger == 4

OptChannel == 7

OptNumber == 10

(***************************************************************************)
(* lib/Util.ts                                                             *)
(***************************************************************************)
isChoicesOption(option) == option.type \in {OptString, OptInteger, OptNumber}

isSubcommandOption(option) == option.type \in {OptSubcommandGroup, OptSubcommand}

isChannelOption(option) == option.type = OptChannel

\* mutant: only Integer options are numerical
isNumericalOption_IntegerOnly(option) == option.type = OptInteger

isNumericalOption(option) == option.type \in {OptInteger, OptNumber}

\* x ?? d
Coalesce(x, d) == IF x = Absent THEN d ELSE x[1]

\* the truthiness of an optional string
Truthy(x) == x # Absent /\ x[1] # ""

\* mutant: the length of an absent array is zero
OptLength_AbsentIsZero(x) == IF x = Absent THEN Some(0) ELSE Some(Len(x[1]))

\* x?.length: undefined when x is absent
OptLength(x) == IF x = Absent THEN Absent ELSE Some(Len(x[1]))

\* Array.prototype.find: the first element satisfying the test, or undefined
RECURSIVE FindFrom(_, _, _)
FindFrom(seq, Test(_), i) ==
    IF i > Len(seq) THEN Absent
    ELSE IF Test(seq[i]) THEN Some(seq[i])
    ELSE FindFrom(seq, Test, i + 1)

Find(seq, Test(_)) == FindFrom(seq, Test, 1)

\* fast-deep-equal on two localization maps (locale -> string)
isEqual(a, b) ==
    /\ DOMAIN a = DOMAIN b
    /\ \A k \in DOMAIN a : a[k] = b[k]

EmptyMap == [k \in {} |-> ""]

\* mutant: a choice is looked up by name and its value is not compared
ChoicesMatch_NameOnly(existingChoices, optionChoices) ==
    \A i \in 1..Len(existingChoices) :
        \E j \in 1..Len(optionChoices) : optionChoices[j].name = existingChoices[i].name

ChoicesMatch(existingChoices, optionChoices) ==
    \A i \in 1..Len(existingChoices) :
        LET choice == existingChoices[i]
            SameName(optChoice) == optChoice.name = choice.name
            foundChoice == Find(optionChoices, SameName)
        IN  /\ foundChoice # Absent
            /\ foundChoice[1].value = choice.value

\* mutant: only the lengths of the channel type arrays are compared
ChannelTypesMatch_LengthOnly(existingTypes, optionTypes) == TRUE

ChannelTypesMatch(existingTypes, optionTypes) ==
    \A i \in 1..Len(existingTypes) :
        \E j \in 1..Len(optionTypes) : optionTypes[j] = existingTypes[i]

RECURSIVE optionEquals(_, _)
RECURSIVE optionsEqual(_, _)
\* mutant: a missing autocomplete flag counts as false
optionEquals_AutocompleteDefaulted(existing, option) ==
    IF \/ option.name # existing.name
       \/ option.type # existing.type
       \/ option.description # existing.description
       \/ Coalesce(option.required, FALSE) # Coalesce(existing.required, FALSE)
       \/ ~isEqual(Coalesce(existing.name_localizations, EmptyMap),
                   Coalesce(option.name_localizations, EmptyMap))
       \/ ~isEqual(Coalesce(existing.description_localizations, EmptyMap),
                   Coalesce(option.description_localizations, EmptyMap))
    THEN FALSE
    ELSE IF /\ isChoicesOption(existing) /\ isChoicesOption(option)
            /\ \/ Coalesce(existing.autocomplete, FALSE) # Coalesce(option.autocomplete, FALSE)
               \/ OptLength(existing.choices) # OptLength(option.choices)
               \/ /\ existing.choices # Absent /\ option.choices # Absent
                  /\ ~ChoicesMatch(existing.choices[1], option.choices[1])
    THEN FALSE
    ELSE IF /\ isSubcommandOption(existing) /\ isSubcommandOption(option)
            /\ OptLength(existing.options) # OptLength(option.options)
    THEN FALSE
    ELSE IF /\ isSubcommandOption(existing) /\ isSubcommandOption(option)
            /\ existing.options # Absent /\ option.options # Absent
    THEN optionsEqual(existing.options[1], option.options[1])
    ELSE IF /\ isChannelOption(existing) /\ isChannelOption(option)
            /\ \/ OptLength(existing.channel_types) # OptLength(option.channel_types)
               \/ /\ existing.channel_types # Absent /\ option.channel_types # Absent
                  /\ ~ChannelTypesMatch(existing.channel_types[1], option.channel_types[1])
    THEN FALSE
    ELSE IF /\ isNumericalOption(existing) /\ isNumericalOption(option)
            /\ \/ existing.min_value # option.min_value
               \/ existing.max_value # option.max_value
    THEN FALSE
    ELSE TRUE

\* mutant: the options of a subcommand are not compared
optionEquals_Shallow(existing, option) ==
    IF \/ option.name # existing.name
       \/ option.type # existing.type
       \/ option.description # existing.description
       \/ Coalesce(option.required, FALSE) # Coalesce(existing.required, FALSE)
       \/ ~isEqual(Coalesce(existing.name_localizations, EmptyMap),
                   Coalesce(option.name_localizations, EmptyMap))
       \/ ~isEqual(Coalesce(existing.description_localizations, EmptyMap),
                   Coalesce(option.description_localizations, EmptyMap))
    THEN FALSE
    ELSE IF /\ isChoicesOption(existing) /\ isChoicesOption(option)
            /\ \/ existing.autocomplete # option.autocomplete
               \/ OptLength(existing.choices) # OptLength(option.choices)
               \/ /\ existing.choices # Absent /\ option.choices # Absent
                  /\ ~ChoicesMatch(existing.choices[1], option.choices[1])
    THEN FALSE
    ELSE IF /\ isSubcommandOption(existing) /\ isSubcommandOption(option)
            /\ OptLength(existing.options) # OptLength(option.options)
    THEN FALSE
    ELSE IF /\ isSubcommandOption(existing) /\ isSubcommandOption(option)
            /\ existing.options # Absent /\ option.options # Absent
    THEN TRUE
    ELSE IF /\ isChannelOption(existing) /\ isChannelOption(option)
            /\ \/ OptLength(existing.channel_types) # OptLength(option.channel_types)
               \/ /\ existing.channel_types # Absent /\ option.channel_types # Absent
                  /\ ~ChannelTypesMatch(existing.channel_types[1], option.channel_types[1])
    THEN FALSE
    ELSE IF /\ isNumericalOption(existing) /\ isNumericalOption(option)
            /\ \/ existing.min_value # option.min_value
               \/ existing.max_value # option.max_value
    THEN FALSE
    ELSE TRUE

optionEquals(existing, option) ==
    IF \/ option.name # existing.name
       \/ option.type # existing.type
       \/ option.description # existing.description
       \/ Coalesce(option.required, FALSE) # Coalesce(existing.required, FALSE)
       \/ ~isEqual(Coalesce(existing.name_localizations, EmptyMap),
                   Coalesce(option.name_localizations, EmptyMap))
       \/ ~isEqual(Coalesce(existing.description_localizations, EmptyMap),
                   Coalesce(option.description_localizations, EmptyMap))
    THEN FALSE
    ELSE IF /\ isChoicesOption(existing) /\ isChoicesOption(option)
            /\ \/ existing.autocomplete # option.autocomplete
               \/ OptLength(existing.choices) # OptLength(option.choices)
               \/ /\ existing.choices # Absent /\ option.choices # Absent
                  /\ ~ChoicesMatch(existing.choices[1], option.choices[1])
    THEN FALSE
    ELSE IF /\ isSubcommandOption(existing) /\ isSubcommandOption(option)
            /\ OptLength(existing.options) # OptLength(option.options)
    THEN FALSE
    ELSE IF /\ isSubcommandOption(existing) /\ isSubcommandOption(option)
            /\ existing.options # Absent /\ option.options # Absent
    THEN optionsEqual(existing.options[1], option.options[1])
    ELSE IF /\ isChannelOption(existing) /\ isChannelOption(option)
            /\ \/ OptLength(existing.channel_types) # OptLength(option.channel_types)
               \/ /\ existing.channel_types # Absent /\ option.channel_types # Absent
                  /\ ~ChannelTypesMatch(existing.channel_types[1], option.channel_types[1])
    THEN FALSE
    ELSE IF /\ isNumericalOption(existing) /\ isNumericalOption(option)
            /\ \/ existing.min_value # option.min_value
               \/ existing.max_value # option.max_value
    THEN FALSE
    ELSE TRUE

\* mutant: options are compared position by position
optionsEqual_Positional(existing, options) ==
    IF Len(existing) # Len(options) THEN FALSE
    ELSE \A i \in 1..Len(existing) : optionEquals(existing[i], options[i])

optionsEqual(existing, options) ==
    IF Len(existing) # Len(options) THEN FALSE
    ELSE \A i \in 1..Len(existing) :
            LET option == existing[i]
                SameName(opt) == opt.name = option.name
                foundOption == Find(options, SameName)
            IN  /\ foundOption # Absent
                /\ optionEquals(option, foundOption[1])

\* mutant: a desired command without description is compared as one with an empty description
commandEquals_DescriptionDefaulted(existing, command) ==
    IF \/ command.name # existing.name
       \/ Coalesce(command.description, "") # existing.description
       \/ Coalesce(command.type, ChatInput) # existing.type
       \/ OptLength(command.options) # OptLength(existing.options)
       \/ command.default_member_permissions # existing.default_member_permissions
       \/ /\ existing.guild_id = Absent
          /\ Some(Coalesce(command.dm_permission, TRUE)) # existing.dm_permission
       \/ ~isEqual(Coalesce(existing.name_localizations, EmptyMap),
                   Coalesce(command.name_localizations, EmptyMap))
       \/ ~isEqual(Coalesce(existing.description_localizations, EmptyMap),
                   Coalesce(command.description_localizations, EmptyMap))
    THEN FALSE
    ELSE IF command.options # Absent /\ existing.options # Absent
    THEN optionsEqual(existing.options[1], command.options[1])
    ELSE TRUE

\* mutant: dm_permission is compared for a guild command too
commandEquals_DmPermissionAlways(existing, command) ==
    IF \/ command.name # existing.name
       \/ (command.description # Absent /\ command.description[1] # existing.description)
       \/ Coalesce(command.type, ChatInput) # existing.type
       \/ OptLength(command.options) # OptLength(existing.options)
       \/ command.default_member_permissions # existing.default_member_permissions
       \/ Some(Coalesce(command.dm_permission, TRUE)) # existing.dm_permission
       \/ ~isEqual(Coalesce(existing.name_localizations, EmptyMap),
                   Coalesce(command.name_localizations, EmptyMap))
       \/ ~isEqual(Coalesce(existing.description_localizations, EmptyMap),
                   Coalesce(command.description_localizations, EmptyMap))
    THEN FALSE
    ELSE IF command.options # Absent /\ existing.options # Absent
    THEN optionsEqual(existing.options[1], command.options[1])
    ELSE TRUE

\* mutant: the lengths of the option lists are not compared
commandEquals_NoLengthCheck(existing, command) ==
    IF \/ command.name # existing.name
       \/ (command.description # Absent /\ command.description[1] # existing.description)
       \/ Coalesce(command.type, ChatInput) # existing.type
       \/ command.default_member_permissions # existing.default_member_permissions
       \/ /\ existing.guild_id = Absent
          /\ Some(Coalesce(command.dm_permission, TRUE)) # existing.dm_permission
       \/ ~isEqual(Coalesce(existing.name_localizations, EmptyMap),
                   Coalesce(command.name_localizations, EmptyMap))
       \/ ~isEqual(Coalesce(existing.description_localizations, EmptyMap),
                   Coalesce(command.description_localizations, EmptyMap))
    THEN FALSE
    ELSE IF command.options # Absent /\ existing.options # Absent
    THEN optionsEqual(existing.options[1], command.options[1])
    ELSE TRUE

commandEquals(existing, command) ==
    IF \/ command.name # existing.name
       \/ (command.description # Absent /\ command.description[1] # existing.description)
       \/ Coalesce(command.type, ChatInput) # existing.type
       \/ OptLength(command.options) # OptLength(existing.options)
       \/ command.default_member_permissions # existing.default_member_permissions
       \/ /\ existing.guild_id = Absent
          /\ Some(Coalesce(command.dm_permission, TRUE)) # existing.dm_permission
       \/ ~isEqual(Coalesce(existing.name_localizations, EmptyMap),
                   Coalesce(command.name_localizations, EmptyMap))
       \/ ~isEqual(Coalesce(existing.description_localizations, EmptyMap),
                   Coalesce(command.description_localizations, EmptyMap))
    THEN FALSE
    ELSE IF command.options # Absent /\ existing.options # Absent
    THEN optionsEqual(existing.options[1], command.options[1])
    ELSE TRUE

(***************************************************************************)
(* The remote API (external): what it stores for a created command.  The   *)
(* stored command has the defaults applied (type ChatInput, dm_permission  *)
(* true on a global command) and carries the server-assigned id.           *)
(***************************************************************************)
\* mutant: the remote defaults dm_permission to false
RemoteOf_NoDmDefault(command, guildId, id) ==
    [id |-> id,
     name |-> command.name,
     description |-> Coalesce(command.description, ""),
     type |-> Coalesce(command.type, ChatInput),
     options |-> command.options,
     default_member_permissions |-> command.default_member_permissions,
     dm_permission |-> IF guildId = Absent
                       THEN Some(Coalesce(command.dm_permission, FALSE))
                       ELSE Absent,
     guild_id |-> guildId,
     name_localizations |-> command.name_localizations,
     description_localizations |-> command.description_localizations]

RemoteOf(command, guildId, id) ==
    [id |-> id,
     name |-> command.name,
     description |-> Coalesce(command.description, ""),
     type |-> Coalesce(command.type, ChatInput),
     options |-> command.options,
     default_member_permissions |-> command.default_member_permissions,
     dm_permission |-> IF guildId = Absent
                       THEN Some(Coalesce(command.dm_permission, TRUE))
                       ELSE Absent,
     guild_id |-> guildId,
     name_localizations |-> command.name_localizations,
     description_localizations |-> command.description_localizations]

(***************************************************************************)
(* Inputs                                                                  *)
(***************************************************************************)
MaxCmds == 2

MaxBindings == 3

DevGuilds == {"g1"}

FailStatuses == {401, 403, 404, 500}

FatalStatuses == {401, 403, 404}

CmdA ==
    [name |-> "a", description |-> Some("x"), type |-> Absent, options |-> Absent,
     default_member_permissions |-> Absent, dm_permission |-> Absent,
     name_localizations |-> Absent, description_localizations |-> Absent]

CmdB ==
    [name |-> "a", description |-> Absent, type |-> Some(User), options |-> Absent,
     default_member_permissions |-> Some("0"), dm_permission |-> Some(TRUE),
     name_localizations |-> Absent, description_localizations |-> Absent]

ChatPool == {CmdA}

UserPool == {CmdB}

MessagePool == {}

\* guildIds of a command configuration: absent, or an array of guild ids
GuildIdChoices ==
    {Absent, Some(<<"g2">>), Some(<<"g1", "g2">>)}

ConfigsOf(pool) ==
    [command : pool, global : BOOLEAN, guildIds : GuildIdChoices]

SeqsUpTo(S, n) == UNION {[1..k -> S] : k \in 0..n}

\* what a list call can return: nothing, or commands the remote holds for
\* the target, up to date with the local definition or stale
ExistingLists(guildId) ==
    LET upToDate == RemoteOf(CmdA, guildId, 101)
        stale == [RemoteOf(CmdA, guildId, 102) EXCEPT !.description = "old"]
    IN  {<<>>, <<upToDate>>, <<stale>>, <<stale, upToDate>>}

(***************************************************************************)
(* lib/Deploy.ts                                                           *)
(***************************************************************************)
VARIABLES
    config,            \* the DeployConfig passed to deploy
    pc,                \* where the run is
    guildId,           \* deploySingleDestination: the guildId parameter
    commands,          \* deploySingleDestination: the commands parameter
    existingCommands,  \* deploySingleDestination: the fetched remote commands
    added,             \* deploySingleDestination: local added
    errored,           \* deploySingleDestination: local errored
    skipped,           \* deploySingleDestination: local skipped
    idx,               \* deploySingleDestination: position of the for-of loop
    deployed,          \* the promise deploySingleDestination returned
    mode,              \* deploy: which call site awaits deploySingleDestination
    guildQueue,        \* deploy: entries of guildCommandsMap not yet iterated
    response,          \* deploy: the local response object
    promise,           \* the promise deploy returned
    calls,             \* every remote call issued, in order, with its outcome
    cmp,               \* a comparator call: its arguments and its return value
    store,             \* a storeConfig call: its arguments, its return value, the file
    parts,             \* a separateGlobalGuild call: its argument and its return value
    registered,        \* the commands the remote holds for the target redeployed to
    log                \* an outputResults call: its arguments and what it logged

vars ==
    <<config, pc, guildId, commands, existingCommands, added, errored, skipped,
      idx, deployed, mode, guildQueue, response, promise, calls, cmp, store, parts,
      registered, log>>

singleVars == <<existingCommands, added, errored, skipped, idx>>

allCommands ==
    config.chatCommands \o config.userCommands \o config.messageCommands

\* mutant: the skipped commands are left out of the response
SingleResponse_NoSkipped(bulkError, cmds, err, skip) ==
    [bulkError |-> bulkError, commands |-> cmds, errored |-> err, skipped |-> <<>>]

\* a SingleDeployResponse
SingleResponse(bulkError, cmds, err, skip) ==
    [bulkError |-> bulkError, commands |-> cmds, errored |-> err, skipped |-> skip]

\* mutant: the lists built before the failure are kept in the result
BulkErrorResponse_KeepsLists(status) == SingleResponse(Some(status), added, errored, skipped)

\* mutant: the error is not stored in bulkError
BulkErrorResponse_NoError(status) == SingleResponse(Absent, <<>>, <<>>, <<>>)

\* mutant: the failure is also kept as an errored entry
BulkErrorResponse_KeepsErrored(status) ==
    SingleResponse(Some(status), <<>>, <<[name |-> "", command |-> Absent, error |-> status]>>, <<>>)

BulkErrorResponse(status) == SingleResponse(Some(status), <<>>, <<>>, <<>>)

EmptySingle == SingleResponse(Absent, <<>>, <<>>, <<>>)

\* a settled promise: fulfilled with a value, or rejected with an error;
\* an error is identified by its status
Fulfilled(value) == [rejected |-> FALSE, isError |-> FALSE, status |-> 0, value |-> value]

Rejected(status) == [rejected |-> TRUE, isError |-> TRUE, status |-> status, value |-> EmptySingle]

Pending == [rejected |-> FALSE, isError |-> FALSE, status |-> -1, value |-> EmptySingle]

\* mutant: the rejection is not caught
Catch_Missing(p) == p

\* promise.catch((error) => error)
Catch(p) == [p EXCEPT !.rejected = FALSE]

\* mutant: no failure status stops the target
IsFatal_Never(status) == FALSE

\* mutant: every failure status is one that stops the target
IsFatal_Every(status) == TRUE

\* [401, 403, 404].includes(status)
IsFatal(status) == status \in FatalStatuses

\* mutant: no key is ever found
MapHas_Never(map, id) == FALSE

\* Map.prototype.set on a map kept as a sequence of entries in insertion order
MapHas(map, id) == \E i \in 1..Len(map) : map[i].id = id

\* mutant: a new key is entered in front of the existing ones
MapSet_Front(map, id, value) ==
    IF MapHas(map, id)
    THEN [i \in 1..Len(map) |-> IF map[i].id = id THEN [id |-> id, value |-> value] ELSE map[i]]
    ELSE <<[id |-> id, value |-> value]>> \o map

MapSet(map, id, value) ==
    IF MapHas(map, id)
    THEN [i \in 1..Len(map) |-> IF map[i].id = id THEN [id |-> id, value |-> value] ELSE map[i]]
    ELSE Append(map, [id |-> id, value |-> value])

\* Map.prototype.get
MapGet(map, id) == map[CHOOSE i \in 1..Len(map) : map[i].id = id].value

RECURSIVE PushToGuilds(_, _, _, _)
PushToGuilds(map, ids, j, command) ==
    IF j > Len(ids) THEN map
    ELSE LET id == ids[j]
             withKey == IF MapHas(map, id) THEN map ELSE MapSet(map, id, <<>>)
             pushed == [i \in 1..Len(withKey) |->
                          IF withKey[i].id = id
                          THEN [withKey[i] EXCEPT !.value = Append(@, command)]
                          ELSE withKey[i]]
         IN  PushToGuilds(pushed, ids, j + 1, command)

RECURSIVE separateFrom(_, _, _, _)
separateFrom(cmds, i, globalCommands, guildCommands) ==
    IF i > Len(cmds)
    THEN [globalCommands |-> globalCommands, guildCommands |-> guildCommands]
    ELSE LET command == cmds[i]
             g == IF command.global THEN Append(globalCommands, command.command)
                  ELSE globalCommands
             m == IF command.guildIds # Absent /\ Len(command.guildIds[1]) > 0
                  THEN PushToGuilds(guildCommands, command.guildIds[1], 1, command.command)
                  ELSE guildCommands
         IN  separateFrom(cmds, i + 1, g, m)

\* mutant: else if, a global command is not entered in any guild
separateGlobalGuild_Exclusive(cmds) ==
    separateFrom([i \in 1..Len(cmds) |->
                    IF cmds[i].global THEN [cmds[i] EXCEPT !.guildIds = Absent]
                    ELSE cmds[i]],
                 1, <<>>, <<>>)

separateGlobalGuild(cmds) == separateFrom(cmds, 1, <<>>, <<>>)

\* the number of (command, target) pairs of a command list
RECURSIVE Bindings(_)
Bindings(cmds) ==
    IF Len(cmds) = 0 THEN 0
    ELSE (IF Head(cmds).global THEN 1 ELSE 0)
         + (IF Head(cmds).guildIds = Absent THEN 0 ELSE Len(Head(cmds).guildIds[1]))
         + Bindings(Tail(cmds))

EmptyResponse == [guilds |-> <<>>, global |-> Absent, dev |-> Absent, error |-> Absent]

\* no storeConfig call is under observation
NoStore ==
    [config |-> Absent, name |-> Absent, returned |-> Absent, file |-> Absent]

\* no separateGlobalGuild call is under observation
NoParts == [commands |-> <<>>, returned |-> Absent]

\* no target is redeployed to
NoneRegistered == <<>>

\* no outputResults call is under observation
NoLog == [results |-> Absent, flags |-> Absent, output |-> Absent]

\* no comparator call is under observation
NoComparison ==
    [op |-> "none", existing |-> Absent, desired |-> Absent, guild_id |-> Absent,
     applied |-> FALSE, result |-> FALSE]

Init ==
    /\ \E cmds \in SeqsUpTo(ConfigsOf(ChatPool \cup UserPool \cup MessagePool), MaxCmds),
          dev \in {Absent} \cup {Some(g) : g \in DevGuilds},
          bulk \in BOOLEAN, force \in BOOLEAN, dryRun \in BOOLEAN :
        /\ Bindings(cmds) <= MaxBindings
        /\ config = [chatCommands |-> SelectSeq(cmds, LAMBDA c : c.command \in ChatPool),
                     userCommands |-> SelectSeq(cmds, LAMBDA c : c.command \in UserPool),
                     messageCommands |-> SelectSeq(cmds, LAMBDA c : c.command \in MessagePool),
                     devGuildId |-> dev,
                     bulkOverwrite |-> bulk, force |-> force, dryRun |-> dryRun]
    /\ pc = "start"
    /\ guildId = Absent
    /\ commands = <<>>
    /\ existingCommands = <<>>
    /\ added = <<>>
    /\ errored = <<>>
    /\ skipped = <<>>
    /\ idx = 1
    /\ deployed = Pending
    /\ mode = "none"
    /\ guildQueue = <<>>
    /\ response = EmptyResponse
    /\ promise = [state |-> "pending", value |-> Absent, reason |-> 0]
    /\ calls = <<>>
    /\ cmp = NoComparison
    /\ store = NoStore
    /\ parts = NoParts
    /\ registered = NoneRegistered
    /\ log = NoLog

\* the call log: route is the guild id of a guild route, Absent for the
\* global route; status is 0 while the call is outstanding, 200 once it
\* succeeded, the error's status once it failed
Call(op, route, body) == [op |-> op, route |-> route, body |-> body, status |-> 0]

\* deploySingleDestination: the route of the target
Route(id) == IF Truthy(id) THEN id ELSE Absent

Issue(op, body) == Append(calls, Call(op, Route(guildId), body))

Complete(status) == [calls EXCEPT ![Len(calls)].status = status]

Return(value) == [state |-> "fulfilled", value |-> value, reason |-> 0]

Reject(status) == [state |-> "rejected", value |-> Absent, reason |-> status]

\* deploySingleDestination, dry run: every command is reported as skipped
DryRunResponse(cmds) ==
    SingleResponse(Absent, <<>>, <<>>,
        [i \in 1..Len(cmds) |->
            [name |-> cmds[i].name, id |-> Absent, command |-> cmds[i], existing |-> Absent]])

\* mutant: the type of the command is compared without its default
ExistingFor_NoTypeDefault(existing, command) ==
    LET Matches(definition) ==
            /\ command.type = Some(definition.type)
            /\ command.name = definition.name
    IN  Find(existing, Matches)

\* mutant: the lookup goes by name alone
ExistingFor_NameOnly(existing, command) ==
    LET Matches(definition) == command.name = definition.name
    IN  Find(existing, Matches)

\* deploySingleDestination, the lookup of the loop: the remote command the
\* desired command is up to date with, if any
ExistingFor(existing, command) ==
    LET Matches(definition) ==
            /\ Coalesce(command.type, ChatInput) = definition.type
            /\ command.name = definition.name
    IN  Find(existing, Matches)

\* mutant: a command found on the remote is skipped without comparing it
ShouldSkip_FoundOnly(force, existing, command) ==
    /\ ~force
    /\ ExistingFor(existing, command) # Absent

ShouldSkip(force, existing, command) ==
    /\ ~force
    /\ ExistingFor(existing, command) # Absent
    /\ commandEquals(ExistingFor(existing, command)[1], command)

SkippedEntry(existing, command) ==
    [name |-> existing.name, id |-> Some(existing.id), command |-> command,
     existing |-> Some(existing)]

\* mutant: every failure of the dev target is reported as the run's error
DevReport_AlwaysError(d, devGuildId) ==
    IF d.isError
    THEN [guilds |-> <<>>, global |-> Absent, dev |-> Some(devGuildId),
          error |-> Some(d.status)]
    ELSE [guilds |-> <<[id |-> devGuildId, value |-> d.value]>>,
          global |-> Absent, dev |-> Some(devGuildId), error |-> Absent]

\* deploy, dev mode: the report returned once the dev target has settled
DevReport(d, devGuildId) ==
    IF d.isError
    THEN IF IsFatal(d.status)
         THEN [guilds |-> <<>>, global |-> Absent, dev |-> Some(devGuildId),
               error |-> Some(d.status)]
         ELSE [guilds |-> <<[id |-> devGuildId, value |-> BulkErrorResponse(d.status)]>>,
               global |-> Absent, dev |-> Some(devGuildId), error |-> Absent]
    ELSE [guilds |-> <<[id |-> devGuildId, value |-> d.value]>>,
          global |-> Absent, dev |-> Some(devGuildId), error |-> Absent]

\* mutant: every failure of the global target stops the run
GlobalSettled_EveryFailureFatal(d, resp) ==
    IF d.isError
    THEN [returns |-> TRUE, response |-> [resp EXCEPT !.error = Some(d.status)]]
    ELSE [returns |-> FALSE, response |-> [resp EXCEPT !.global = Some(d.value)]]

\* mutant: only 401 on the global target stops the run
GlobalSettled_Only401(d, resp) ==
    IF d.isError
    THEN IF d.status = 401
         THEN [returns |-> TRUE, response |-> [resp EXCEPT !.error = Some(d.status)]]
         ELSE [returns |-> FALSE,
               response |-> [resp EXCEPT !.global = Some(BulkErrorResponse(d.status))]]
    ELSE [returns |-> FALSE, response |-> [resp EXCEPT !.global = Some(d.value)]]

\* deploy, global target settled: whether deploy returns, and the response
GlobalSettled(d, resp) ==
    IF d.isError
    THEN IF IsFatal(d.status)
         THEN [returns |-> TRUE, response |-> [resp EXCEPT !.error = Some(d.status)]]
         ELSE [returns |-> FALSE,
               response |-> [resp EXCEPT !.global = Some(BulkErrorResponse(d.status))]]
    ELSE [returns |-> FALSE, response |-> [resp EXCEPT !.global = Some(d.value)]]

\* mutant: the guild failing with 401 is given a result before deploy returns
GuildSettled_RecordsFailing(d, resp, id) ==
    IF d.isError
    THEN [returns |-> d.status = 401,
          response |-> [resp EXCEPT !.guilds = MapSet(@, id, BulkErrorResponse(d.status)),
                                    !.error = IF d.status = 401 THEN Some(d.status) ELSE @]]
    ELSE [returns |-> FALSE, response |-> [resp EXCEPT !.guilds = MapSet(@, id, d.value)]]

\* mutant: 403 and 404 on a guild stop the run as they do on the global target
GuildSettled_AllFatal(d, resp, id) ==
    IF d.isError
    THEN IF IsFatal(d.status)
         THEN [returns |-> TRUE, response |-> [resp EXCEPT !.error = Some(d.status)]]
         ELSE [returns |-> FALSE,
               response |-> [resp EXCEPT !.guilds = MapSet(@, id, BulkErrorResponse(d.status))]]
    ELSE [returns |-> FALSE, response |-> [resp EXCEPT !.guilds = MapSet(@, id, d.value)]]

\* mutant: 401 on a guild is contained like 403 and 404
GuildSettled_NoneFatal(d, resp, id) ==
    IF d.isError
    THEN [returns |-> FALSE,
          response |-> [resp EXCEPT !.guilds = MapSet(@, id, BulkErrorResponse(d.status))]]
    ELSE [returns |-> FALSE, response |-> [resp EXCEPT !.guilds = MapSet(@, id, d.value)]]

\* deploy, guild target settled: whether deploy returns, and the response
GuildSettled(d, resp, id) ==
    IF d.isError
    THEN IF d.status = 401
         THEN [returns |-> TRUE, response |-> [resp EXCEPT !.error = Some(d.status)]]
         ELSE [returns |-> FALSE,
               response |-> [resp EXCEPT !.guilds = MapSet(@, id, BulkErrorResponse(d.status))]]
    ELSE [returns |-> FALSE, response |-> [resp EXCEPT !.guilds = MapSet(@, id, d.value)]]

\* mutant: the check for an empty command list is missing
NothingToDeploy_Never(cmds) == FALSE

\* deploy: nothing to deploy
NothingToDeploy(cmds) == Len(cmds) = 0

\* mutant: dev mode deploys the global commands only
DevCommands_GlobalOnly(cmds) == separateGlobalGuild(cmds).globalCommands

\* deploy, dev mode: the list handed to deploySingleDestination
DevCommands(cmds) == [i \in 1..Len(cmds) |-> cmds[i].command]

\* mutant: the dry-run check is missing (the revision before dryRun)
EntryBranch_NoDryRun(dryRun, bulk, force) ==
    IF bulk THEN "put"
    ELSE IF ~force THEN "get"
    ELSE "loop"

\* mutant: force does not skip the fetch
EntryBranch_NoForce(dryRun, bulk, force) ==
    IF dryRun THEN "dry"
    ELSE IF bulk THEN "put"
    ELSE "get"

\* mutant: force is looked at before bulk
EntryBranch_ForceFirst(dryRun, bulk, force) ==
    IF dryRun THEN "dry"
    ELSE IF force THEN "loop"
    ELSE IF bulk THEN "put"
    ELSE "get"

\* deploySingleDestination: the branch taken on entry
EntryBranch(dryRun, bulk, force) ==
    IF dryRun THEN "dry"
    ELSE IF bulk THEN "put"
    ELSE IF ~force THEN "get"
    ELSE "loop"

\* deploy: from the call to the first deploySingleDestination
Deploy ==
    /\ pc = "start"
    /\ IF NothingToDeploy(allCommands)
       THEN /\ promise' = Return(Absent)
            /\ pc' = "done"
            /\ UNCHANGED <<guildId, commands, mode, guildQueue, response>>
       ELSE IF Truthy(config.devGuildId)
       THEN /\ mode' = "dev"
            /\ guildId' = config.devGuildId
            /\ commands' = DevCommands(allCommands)
            /\ pc' = "single"
            /\ UNCHANGED <<guildQueue, response, promise>>
       ELSE LET sep == separateGlobalGuild(allCommands)
            IN  /\ response' = EmptyResponse
                /\ guildQueue' = sep.guildCommands
                /\ IF Len(sep.globalCommands) > 0
                   THEN /\ mode' = "global"
                        /\ guildId' = Absent
                        /\ commands' = sep.globalCommands
                        /\ pc' = "single"
                   ELSE /\ pc' = "guilds"
                        /\ UNCHANGED <<mode, guildId, commands>>
                /\ UNCHANGED promise
    /\ UNCHANGED <<cmp, store, parts, registered, log, config, singleVars, deployed, calls>>

\* deploySingleDestination: from entry to its first remote call
DeploySingleDestination ==
    /\ pc = "single"
    /\ existingCommands' = <<>>
    /\ added' = <<>>
    /\ errored' = <<>>
    /\ skipped' = <<>>
    /\ idx' = 1
    /\ LET branch == EntryBranch(config.dryRun, config.bulkOverwrite, config.force)
       IN
       IF branch = "dry"
       THEN /\ deployed' = Fulfilled(DryRunResponse(commands))
            /\ pc' = "settled"
            /\ UNCHANGED calls
       ELSE IF branch = "put"
       THEN /\ calls' = Issue("put", commands)
            /\ pc' = "put"
            /\ UNCHANGED deployed
       ELSE IF branch = "get"
       THEN /\ calls' = Issue("get", <<>>)
            /\ pc' = "get"
            /\ UNCHANGED deployed
       ELSE /\ pc' = "loop"
            /\ UNCHANGED <<deployed, calls>>
    /\ UNCHANGED <<cmp, store, parts, registered, log, config, guildId, commands, mode, guildQueue, response, promise>>

\* rest.put resolves: the remote replaced the target's commands
PutOk ==
    /\ pc = "put"
    /\ calls' = Complete(200)
    /\ deployed' = Fulfilled(SingleResponse(Absent,
                        [i \in 1..Len(commands) |-> RemoteOf(commands[i], guildId, Len(calls) * 10 + i)],
                        <<>>, <<>>))
    /\ pc' = "settled"
    /\ UNCHANGED <<cmp, store, parts, registered, log, config, guildId, commands, singleVars, mode, guildQueue, response, promise>>

\* rest.put rejects: deploySingleDestination rejects with the error
PutFail ==
    /\ pc = "put"
    /\ \E status \in FailStatuses :
        /\ calls' = Complete(status)
        /\ deployed' = Rejected(status)
    /\ pc' = "settled"
    /\ UNCHANGED <<cmp, store, parts, registered, log, config, guildId, commands, singleVars, mode, guildQueue, response, promise>>

\* rest.get resolves with the target's remote commands
GetOk ==
    /\ pc = "get"
    /\ \E list \in ExistingLists(guildId) : existingCommands' = list
    /\ calls' = Complete(200)
    /\ pc' = "loop"
    /\ UNCHANGED <<cmp, store, parts, registered, log, config, guildId, commands, added, errored, skipped, idx, deployed,
                   mode, guildQueue, response, promise>>

\* rest.get rejects: deploySingleDestination rejects with the error
GetFail ==
    /\ pc = "get"
    /\ \E status \in FailStatuses :
        /\ calls' = Complete(status)
        /\ deployed' = Rejected(status)
    /\ pc' = "settled"
    /\ UNCHANGED <<cmp, store, parts, registered, log, config, guildId, commands, singleVars, mode, guildQueue, response, promise>>

\* deploySingleDestination: one iteration of the loop up to its create call,
\* or the return after the last iteration
Loop ==
    /\ pc = "loop"
    /\ IF idx > Len(commands)
       THEN /\ deployed' = Fulfilled(SingleResponse(Absent, added, errored, skipped))
            /\ pc' = "settled"
            /\ UNCHANGED <<skipped, idx, calls>>
       ELSE LET command == commands[idx]
            IN  IF ShouldSkip(config.force, existingCommands, command)
                THEN /\ skipped' = Append(skipped,
                            SkippedEntry(ExistingFor(existingCommands, command)[1], command))
                     /\ idx' = idx + 1
                     /\ UNCHANGED <<pc, deployed, calls>>
                ELSE /\ calls' = Issue("post", <<command>>)
                     /\ pc' = "post"
                     /\ UNCHANGED <<skipped, idx, deployed>>
    /\ UNCHANGED <<cmp, store, parts, registered, log, config, guildId, commands, existingCommands, added, errored,
                   mode, guildQueue, response, promise>>

\* mutant: the created command is added to the fetched list as well
PostOk_UpdatesSnapshot ==
    /\ pc = "post"
    /\ calls' = Complete(200)
    /\ added' = Append(added, RemoteOf(commands[idx], guildId, Len(calls) * 10))
    /\ existingCommands' =
            Append(existingCommands, RemoteOf(commands[idx], guildId, Len(calls) * 10))
    /\ idx' = idx + 1
    /\ pc' = "loop"
    /\ UNCHANGED <<cmp, store, parts, registered, log, config, guildId, commands, errored, skipped,
                   deployed, mode, guildQueue, response, promise>>

\* rest.post resolves with the created command
PostOk ==
    /\ pc = "post"
    /\ calls' = Complete(200)
    /\ added' = Append(added, RemoteOf(commands[idx], guildId, Len(calls) * 10))
    /\ idx' = idx + 1
    /\ pc' = "loop"
    /\ UNCHANGED <<cmp, store, parts, registered, log, config, guildId, commands, existingCommands, errored, skipped,
                   deployed, mode, guildQueue, response, promise>>

\* rest.post rejects: the error is caught and classified
PostFail ==
    /\ pc = "post"
    /\ \E status \in FailStatuses :
        LET result == Catch(Rejected(status))
        IN  /\ calls' = Complete(status)
            /\ IF result.rejected
               THEN /\ deployed' = result
                    /\ pc' = "settled"
                    /\ UNCHANGED <<errored, idx>>
               ELSE IF IsFatal(result.status)
               THEN /\ deployed' = Rejected(result.status)
                    /\ pc' = "settled"
                    /\ UNCHANGED <<errored, idx>>
               ELSE /\ errored' = Append(errored,
                            [name |-> commands[idx].name, command |-> commands[idx],
                             error |-> result.status])
                    /\ idx' = idx + 1
                    /\ pc' = "loop"
                    /\ UNCHANGED deployed
    /\ UNCHANGED <<cmp, store, parts, registered, log, config, guildId, commands, existingCommands, added, skipped,
                   mode, guildQueue, response, promise>>

\* deploy: the awaited deploySingleDestination has settled
Settled ==
    /\ pc = "settled"
    /\ LET d == Catch(deployed)
       IN  IF d.rejected
           THEN /\ promise' = Reject(d.status)
                /\ pc' = "done"
                /\ UNCHANGED response
           ELSE IF mode = "dev"
           THEN /\ promise' = Return(Some(DevReport(d, config.devGuildId[1])))
                /\ pc' = "done"
                /\ UNCHANGED response
           ELSE LET out == IF mode = "global" THEN GlobalSettled(d, response)
                           ELSE GuildSettled(d, response, guildId[1])
                IN  /\ response' = out.response
                    /\ IF out.returns
                       THEN /\ promise' = Return(Some(out.response))
                            /\ pc' = "done"
                       ELSE /\ pc' = "guilds"
                            /\ UNCHANGED promise
    /\ UNCHANGED <<cmp, store, parts, registered, log, config, guildId, commands, singleVars, deployed, mode, guildQueue, calls>>

\* deploy: the for-of loop over guildCommandsMap, and the final return
NextGuild ==
    /\ pc = "guilds"
    /\ IF Len(guildQueue) = 0
       THEN /\ promise' = Return(Some(response))
            /\ pc' = "done"
            /\ UNCHANGED <<guildId, commands, mode, guildQueue>>
       ELSE /\ mode' = "guild"
            /\ guildId' = Some(Head(guildQueue).id)
            /\ commands' = Head(guildQueue).value
            /\ guildQueue' = Tail(guildQueue)
            /\ pc' = "single"
            /\ UNCHANGED promise
    /\ UNCHANGED <<cmp, store, parts, registered, log, config, singleVars, deployed, response, calls>>

Next ==
    \/ Deploy
    \/ DeploySingleDestination
    \/ PutOk
    \/ PutFail
    \/ GetOk
    \/ GetFail
    \/ Loop
    \/ PostOk
    \/ PostFail
    \/ Settled
    \/ NextGuild

Spec == Init /\ [][Next]_vars

(***************************************************************************)
(* The comparator on its own (lib/Util.ts): the arguments of one call are  *)
(* drawn from bounded sets, and one action per exported function applies   *)
(* it to them.  The deploy stands still.                                   *)
(***************************************************************************)
MaxListLen == 2

\* an option carrying only the fields every option has
Option(name, type) ==
    [name |-> name, type |-> type, description |-> "the argument", required |-> Absent,
     name_localizations |-> Absent, description_localizations |-> Absent,
     autocomplete |-> Absent, choices |-> Absent, options |-> Absent,
     channel_types |-> Absent, min_value |-> Absent, max_value |-> Absent]

\* an optional array property: absent, or an array of up to MaxListLen entries
OptionalSeqs(S) == {Absent} \cup {Some(l) : l \in SeqsUpTo(S, MaxListLen)}

ChoicePool == [name : {"filled", "empty"}, value : {"filled", ""}]

ChannelTypePool == {0, 1, 2}

ChoicesOptions ==
    {[Option("string", OptString) EXCEPT !.choices = c, !.autocomplete = a] :
        c \in OptionalSeqs(ChoicePool), a \in {Absent, Some(FALSE), Some(TRUE)}}

ChannelOptions ==
    {[Option("channel", OptChannel) EXCEPT !.channel_types = t] :
        t \in OptionalSeqs(ChannelTypePool)}

NumericalOptions ==
    {[Option("int-min-max", type) EXCEPT !.min_value = lo, !.max_value = hi, !.autocomplete = a] :
        type \in {OptInteger, OptNumber},
        lo \in {Absent, Some(0), Some(1)}, hi \in {Absent, Some(1), Some(100)},
        a \in {Absent, Some(FALSE)}}

StringOption == Option("string", OptString)

AnotherString == [StringOption EXCEPT !.description = "another description"]

\* the options an option list is built from: two that share a name, a
\* numerical one, two subcommands that share a name and differ below, and
\* one whose two choices share a name
OptionPool ==
    {StringOption,
     AnotherString,
     [Option("int-min-max", OptInteger) EXCEPT !.min_value = Some(0), !.max_value = Some(100)],
     [Option("argument", OptSubcommand) EXCEPT !.options = Some(<<StringOption>>)],
     [Option("argument", OptSubcommand) EXCEPT
         !.options = Some(<<StringOption, AnotherString>>)],
     [Option("choices", OptString) EXCEPT
         !.choices = Some(<<[name |-> "filled", value |-> "filled"],
                            [name |-> "filled", value |-> ""]>>)]}

Locale == [k \in {"en-US"} |-> "test"]

TopOptions == {Absent, Some(<<>>), Some(<<StringOption>>)}

DesiredCommands(optionChoices, localizationChoices) ==
    [name : {"test"},
     description : {Absent, Some(""), Some("various tests")},
     type : {Absent, Some(ChatInput), Some(User)},
     options : optionChoices,
     default_member_permissions : {Absent, Some("0")},
     dm_permission : {Absent, Some(TRUE), Some(FALSE)},
     name_localizations : localizationChoices,
     description_localizations : {Absent}]

RemoteCommands ==
    [id : {101},
     name : {"test", "another"},
     description : {"", "various tests"},
     type : {ChatInput, User},
     options : TopOptions,
     default_member_permissions : {Absent, Some("0")},
     dm_permission : {Absent, Some(TRUE), Some(FALSE)},
     guild_id : {Absent, Some("g1")},
     name_localizations : {Absent},
     description_localizations : {Absent}]

\* arguments of a subcommand: two that share a name and differ in their
\* description, one of another name, one of another type
NestedArguments ==
    {StringOption, AnotherString, Option("other", OptString), Option("string", OptInteger)}

\* a subcommand with its arguments
Subcommands(argumentLists) ==
    {[Option(name, OptSubcommand) EXCEPT !.description = description, !.options = arguments] :
        name \in {"sub", "other"},
        description \in {"the argument", "another description"},
        arguments \in argumentLists}

\* a subcommand group with no subcommand list, or a list of one subcommand
SubcommandGroups(subcommands) ==
    {[Option(name, type) EXCEPT !.description = description, !.options = children] :
        name \in {"group", "other"},
        type \in {OptSubcommandGroup, OptSubcommand},
        description \in {"the argument", "another description"},
        children \in {Absent} \cup {Some(<<s>>) : s \in subcommands}}

\* the option lists of a desired command: one group, three levels deep
NestedOptions ==
    {Some(<<g>>) : g \in SubcommandGroups(Subcommands(OptionalSeqs(NestedArguments)))}

\* the option lists of a remote command: the group "group" holding the
\* subcommand "sub", whose arguments have distinct names or, in one list,
\* the same name
RemoteNestedOptions ==
    {Some(<<[Option("group", OptSubcommandGroup) EXCEPT
                !.options = Some(<<[Option("sub", OptSubcommand) EXCEPT !.options = a]>>)]>>) :
        a \in {Absent, Some(<<StringOption>>),
               Some(<<StringOption, Option("other", OptString)>>),
               Some(<<StringOption, StringOption>>)}}

\* a remote chat command and the definition it was created from, options apart
NestedRemote(options) ==
    [id |-> 101, name |-> "test", description |-> "various tests", type |-> ChatInput,
     options |-> options, default_member_permissions |-> Some("0"),
     dm_permission |-> Some(TRUE), guild_id |-> Absent,
     name_localizations |-> Absent, description_localizations |-> Absent]

NestedDesired(options) ==
    [name |-> "test", description |-> Some("various tests"), type |-> Absent,
     options |-> options, default_member_permissions |-> Some("0"),
     dm_permission |-> Absent,
     name_localizations |-> Absent, description_localizations |-> Absent]

\* a comparator call that has not been made yet
Comparison(op, existing, desired, guild) ==
    [op |-> op, existing |-> existing, desired |-> desired, guild_id |-> guild,
     applied |-> FALSE, result |-> FALSE]

deployVars ==
    <<config, pc, guildId, commands, existingCommands, added, errored, skipped,
      idx, deployed, mode, guildQueue, response, promise, calls>>

EqualsInit ==
    /\ \/ \E e \in RemoteCommands, d \in DesiredCommands(TopOptions, {Absent}) :
            cmp = Comparison("commandEquals", e, d, Absent)
       \* a definition and the target it is created on
       \/ \E d \in DesiredCommands(OptionalSeqs(OptionPool), {Absent, Some(Locale)}),
             g \in {Absent, Some("g1")} :
            cmp = Comparison("remote", Absent, d, g)
       \/ \E e \in SeqsUpTo(OptionPool, MaxListLen), o \in SeqsUpTo(OptionPool, MaxListLen) :
            cmp = Comparison("optionsEqual", e, o, Absent)
       \/ \E e \in ChoicesOptions \cup ChannelOptions \cup NumericalOptions,
             o \in ChoicesOptions \cup ChannelOptions \cup NumericalOptions :
            cmp = Comparison("optionEquals", e, o, Absent)
       \* a remote command and a definition with nested options
       \/ \E e \in RemoteNestedOptions, o \in NestedOptions :
            cmp = Comparison("commandEquals", NestedRemote(e), NestedDesired(o), Absent)
    /\ config = [chatCommands |-> <<>>, userCommands |-> <<>>, messageCommands |-> <<>>,
                 devGuildId |-> Absent,
                 bulkOverwrite |-> FALSE, force |-> FALSE, dryRun |-> FALSE]
    /\ pc = "start"
    /\ guildId = Absent
    /\ commands = <<>>
    /\ existingCommands = <<>>
    /\ added = <<>>
    /\ errored = <<>>
    /\ skipped = <<>>
    /\ idx = 1
    /\ deployed = Pending
    /\ mode = "none"
    /\ guildQueue = <<>>
    /\ response = EmptyResponse
    /\ promise = [state |-> "pending", value |-> Absent, reason |-> 0]
    /\ calls = <<>>
    /\ store = NoStore
    /\ parts = NoParts
    /\ registered = NoneRegistered
    /\ log = NoLog

\* commandEquals(existing, command)
ApplyCommandEquals ==
    /\ cmp.op = "commandEquals"
    /\ ~cmp.applied
    /\ cmp' = [cmp EXCEPT !.applied = TRUE,
                          !.result = commandEquals(cmp.existing, cmp.desired)]
    /\ UNCHANGED <<deployVars, store, parts, registered, log>>

\* the remote stores the definition with its defaults applied, and the
\* stored command is compared with the definition
ApplyRemoteDefaults ==
    /\ cmp.op = "remote"
    /\ ~cmp.applied
    /\ LET remote == RemoteOf(cmp.desired, cmp.guild_id, 101)
       IN  cmp' = [cmp EXCEPT !.existing = remote,
                              !.applied = TRUE,
                              !.result = commandEquals(remote, cmp.desired)]
    /\ UNCHANGED <<deployVars, store, parts, registered, log>>

\* optionsEqual(existing, options)
ApplyOptionsEqual ==
    /\ cmp.op = "optionsEqual"
    /\ ~cmp.applied
    /\ cmp' = [cmp EXCEPT !.applied = TRUE,
                          !.result = optionsEqual(cmp.existing, cmp.desired)]
    /\ UNCHANGED <<deployVars, store, parts, registered, log>>

\* optionEquals(existing, option)
ApplyOptionEquals ==
    /\ cmp.op = "optionEquals"
    /\ ~cmp.applied
    /\ cmp' = [cmp EXCEPT !.applied = TRUE,
                          !.result = optionEquals(cmp.existing, cmp.desired)]
    /\ UNCHANGED <<deployVars, store, parts, registered, log>>

EqualsNext ==
    \/ ApplyCommandEquals
    \/ ApplyRemoteDefaults
    \/ ApplyOptionsEqual
    \/ ApplyOptionEquals

EqualsSpec == EqualsInit /\ [][EqualsNext]_vars

(***************************************************************************)
(* lib/FileParser.ts: storeConfig.  A configuration object is a record of  *)
(* optional keys; the text written is the prefix and the sequence of the   *)
(* top-level entries JSON.stringify emits, each key quoted or not.         *)
(***************************************************************************)
\* the keys of InteractionsDeployConfig, in the order the object holds them
ConfigKeys ==
    <<"bulkOverwrite", "debug", "developer", "dryRun", "force", "clientId",
      "commandDefinitions", "commandDestinations", "commands", "devGuildId", "token">>

DefaultFalseKeys == {"bulkOverwrite", "debug", "dryRun", "force"}

\* delete obj[key]
Delete(obj, key) == [obj EXCEPT ![key] = Absent]

\* typeof commands[0] === 'object' && commands[0].path
HasPathObject(cmds) ==
    /\ cmds[1].object
    /\ Truthy(cmds[1].path)

\* JSON.stringify(obj, null, '\t'): the defined keys, quoted, with their values
JSONStringify(obj) ==
    LET present == SelectSeq(ConfigKeys, LAMBDA k : obj[k] # Absent)
    IN  [i \in 1..Len(present) |->
            [key |-> present[i], quoted |-> TRUE, value |-> obj[present[i]][1]]]

\* replaceAll(/"(?<key>\w+?)"(?=:)/gi, '$<key>'): the keys lose their quotes
Unquote(entries) ==
    [i \in 1..Len(entries) |-> [entries[i] EXCEPT !.quoted = FALSE]]

\* name.endsWith(ending): a file name is its stem and its ending
endsWith(name, ending) == name[2] = ending

\* mutant: the token is left in the object
DeleteToken_Missing(obj) == obj

\* delete mutableConfig.token
DeleteToken(obj) == Delete(obj, "token")

\* storeConfig, up to writeFileSync: the text to write
storeConfig(cfg, name) ==
    LET hasCommands == cfg.commands # Absent /\ Len(cfg.commands[1]) > 0
        noDefinitions == IF hasCommands THEN Delete(cfg, "commandDefinitions") ELSE cfg
        noDestinations == IF hasCommands /\ HasPathObject(cfg.commands[1])
                          THEN Delete(noDefinitions, "commandDestinations")
                          ELSE noDefinitions
        noDefaults == [k \in DOMAIN noDestinations |->
                          IF k \in DefaultFalseKeys /\ noDestinations[k] = Some(FALSE)
                          THEN Absent
                          ELSE noDestinations[k]]
        mutableConfig == DeleteToken(noDefaults)
        stringifiedConfig == JSONStringify(mutableConfig)
    IN  IF endsWith(name, ".js") \/ endsWith(name, ".cjs")
        THEN [prefix |-> "module.exports = ", entries |-> Unquote(stringifiedConfig)]
        ELSE [prefix |-> "", entries |-> stringifiedConfig]

OptionalBoolean == {Absent, Some(FALSE), Some(TRUE)}

\* the commands key: paths, or paths with a destination config
CommandPaths ==
    {Absent, Some(<<>>),
     Some(<<[object |-> FALSE, path |-> Some("./commands")]>>),
     Some(<<[object |-> TRUE, path |-> Some("./commands")]>>)}

StoredConfigs ==
    [bulkOverwrite : OptionalBoolean,
     debug : OptionalBoolean,
     developer : OptionalBoolean,
     dryRun : {Absent, Some(FALSE)},
     force : {Absent, Some(FALSE)},
     clientId : {Some("id")},
     commandDefinitions : {Absent, Some("definitions")},
     commandDestinations : {Absent, Some("destinations")},
     commands : CommandPaths,
     devGuildId : {Absent, Some("g1")},
     token : {Absent, Some("secret")}]

FileNames == {<<".interactionsrc", ".json">>, <<"config", ".js">>, <<"config", ".cjs">>}

\* the deploy has not started
Idle ==
    /\ config = [chatCommands |-> <<>>, userCommands |-> <<>>, messageCommands |-> <<>>,
                 devGuildId |-> Absent,
                 bulkOverwrite |-> FALSE, force |-> FALSE, dryRun |-> FALSE]
    /\ pc = "start"
    /\ guildId = Absent
    /\ commands = <<>>
    /\ existingCommands = <<>>
    /\ added = <<>>
    /\ errored = <<>>
    /\ skipped = <<>>
    /\ idx = 1
    /\ deployed = Pending
    /\ mode = "none"
    /\ guildQueue = <<>>
    /\ response = EmptyResponse
    /\ promise = [state |-> "pending", value |-> Absent, reason |-> 0]
    /\ calls = <<>>

StoreInit ==
    /\ \E cfg \in StoredConfigs, name \in FileNames :
        store = [config |-> Some(cfg), name |-> Some(name),
                 returned |-> Absent, file |-> Absent]
    /\ cmp = NoComparison
    /\ parts = NoParts
    /\ registered = NoneRegistered
    /\ log = NoLog
    /\ Idle

\* storeConfig: the file is written and true is returned
StoreConfig ==
    /\ store.config # Absent
    /\ store.returned = Absent
    /\ store' = [store EXCEPT
                    !.returned = Some(TRUE),
                    !.file = Some(storeConfig(store.config[1], store.name[1]))]
    /\ UNCHANGED <<deployVars, cmp, parts, registered, log>>

\* storeConfig: writeFileSync throws, nothing is written and false is returned
StoreConfigThrows ==
    /\ store.config # Absent
    /\ store.returned = Absent
    /\ store' = [store EXCEPT !.returned = Some(FALSE)]
    /\ UNCHANGED <<deployVars, cmp, parts, registered, log>>

StoreNext ==
    \/ StoreConfig
    \/ StoreConfigThrows

StoreSpec == StoreInit /\ [][StoreNext]_vars

(***************************************************************************)
(* lib/Deploy.ts: separateGlobalGuild on its own.  guildIds is an array,   *)
(* so an id can be written more than once and in any order; the array can *)
(* be missing or empty.                                                    *)
(***************************************************************************)
GuildIdLists ==
    {Absent, Some(<<>>), Some(<<"g1">>), Some(<<"g2">>),
     Some(<<"g1", "g2">>), Some(<<"g2", "g1">>), Some(<<"g1", "g1">>)}

CommandConfigs == [command : {CmdA, CmdB}, global : BOOLEAN, guildIds : GuildIdLists]

SeparateInit ==
    /\ \E cmds \in SeqsUpTo(CommandConfigs, MaxCmds) :
        parts = [commands |-> cmds, returned |-> Absent]
    /\ cmp = NoComparison
    /\ store = NoStore
    /\ registered = NoneRegistered
    /\ log = NoLog
    /\ Idle

\* separateGlobalGuild(commands)
SeparateGlobalGuild ==
    /\ parts.returned = Absent
    /\ parts' = [parts EXCEPT !.returned = Some(separateGlobalGuild(parts.commands))]
    /\ UNCHANGED <<deployVars, cmp, store, registered, log>>

SeparateNext == SeparateGlobalGuild

SeparateSpec == SeparateInit /\ [][SeparateNext]_vars

(***************************************************************************)
(* Two incremental deployments of one command list to one target, against  *)
(* a remote that stores what is created on it: deploySingleDestination is  *)
(* called, returns, and is called again with the same arguments.           *)
(***************************************************************************)
\* the commands deployed twice: the two of the single deployment, one with
\* its type written out, one with options, and one whose two options share
\* a name and differ
RedeployPool ==
    {CmdA,
     CmdB,
     [CmdA EXCEPT !.type = Some(ChatInput), !.description = Some("y")],
     [CmdA EXCEPT !.name = "b", !.options = Some(<<StringOption, Option("other", OptString)>>)],
     [CmdA EXCEPT !.name = "c", !.options = Some(<<StringOption, AnotherString>>)]}

\* what the remote holds for the target before the first deployment: at
\* most one command of a type and name
RegisteredLists(guild) ==
    LET upToDate == RemoteOf(CmdA, guild, 101)
        stale == [RemoteOf(CmdA, guild, 102) EXCEPT !.description = "old"]
    IN  {<<>>, <<upToDate>>, <<stale>>, <<stale, RemoteOf(CmdB, guild, 103)>>}

\* the remote after a create call: the created command takes the place of
\* the command of its type and name, if there was one
Register(list, created) ==
    SelectSeq(list, LAMBDA e : ~(e.type = created.type /\ e.name = created.name))
        \o <<created>>

RedeployInit ==
    /\ \E cmds \in SeqsUpTo(RedeployPool, MaxCmds), g \in {Absent, Some("g1")} :
        /\ commands = cmds
        /\ guildId = g
        /\ mode = IF g = Absent THEN "global" ELSE "guild"
        /\ registered \in RegisteredLists(g)
    /\ config = [chatCommands |-> <<>>, userCommands |-> <<>>, messageCommands |-> <<>>,
                 devGuildId |-> Absent,
                 bulkOverwrite |-> FALSE, force |-> FALSE, dryRun |-> FALSE]
    /\ pc = "single"
    /\ existingCommands = <<>>
    /\ added = <<>>
    /\ errored = <<>>
    /\ skipped = <<>>
    /\ idx = 1
    /\ deployed = Pending
    /\ guildQueue = <<>>
    /\ response = EmptyResponse
    /\ promise = [state |-> "pending", value |-> Absent, reason |-> 0]
    /\ calls = <<>>
    /\ cmp = NoComparison
    /\ store = NoStore
    /\ parts = NoParts
    /\ log = NoLog

\* rest.get resolves with the commands the remote holds for the target
RegisteredGetOk ==
    /\ pc = "get"
    /\ existingCommands' = registered
    /\ calls' = Complete(200)
    /\ pc' = "loop"
    /\ UNCHANGED <<cmp, store, parts, registered, log, config, guildId, commands, added, errored,
                   skipped, idx, deployed, mode, guildQueue, response, promise>>

\* rest.post resolves with the created command, which the remote now holds
RegisteredPostOk ==
    /\ pc = "post"
    /\ calls' = Complete(200)
    /\ added' = Append(added, RemoteOf(commands[idx], guildId, Len(calls) * 10))
    /\ registered' = Register(registered, RemoteOf(commands[idx], guildId, Len(calls) * 10))
    /\ idx' = idx + 1
    /\ pc' = "loop"
    /\ UNCHANGED <<cmp, store, parts, log, config, guildId, commands, existingCommands, errored,
                   skipped, deployed, mode, guildQueue, response, promise>>

\* the list calls made so far
ListCalls == {i \in 1..Len(calls) : calls[i].op = "get"}

\* the first deployment has returned normally: deploySingleDestination is
\* called again with the same commands and the same target
Redeploy ==
    /\ pc = "settled"
    /\ ~deployed.isError
    /\ Cardinality(ListCalls) = 1
    /\ pc' = "single"
    /\ deployed' = Pending
    /\ UNCHANGED <<cmp, store, parts, registered, log, config, guildId, commands, singleVars,
                   mode, guildQueue, response, promise, calls>>

RedeployNext ==
    \/ DeploySingleDestination
    \/ RegisteredGetOk
    \/ GetFail
    \/ Loop
    \/ RegisteredPostOk
    \/ PostFail
    \/ Redeploy

RedeploySpec == RedeployInit /\ [][RedeployNext]_vars

(***************************************************************************)
(* lib/LogCompiler.ts                                                      *)
(***************************************************************************)
\* outputFull(guildId, data, dry): the header of the table logged for one
\* target and the number of its rows under the column titles, or the
\* failure line of a target that has a bulkError
outputFull(id, data, dry) ==
    IF data.bulkError # Absent
    THEN [line |-> "Deploy to", to |-> id, status |-> "failed", rows |-> 0]
    ELSE [line |-> "Deploy to", to |-> id,
          status |-> IF Len(data.errored) # 0 THEN "partially successful" ELSE "successful",
          rows |-> IF dry THEN Len(data.skipped)
                   ELSE Len(data.commands) + Len(data.skipped) + Len(data.errored)]

\* outputResults, summary disabled: the flags after the global result
GlobalFlags(global) ==
    IF global # Absent /\ (Len(global[1].commands) # 0 \/ Len(global[1].skipped) # 0)
    THEN [failed |-> FALSE, success |-> Len(global[1].errored) = 0]
    ELSE [failed |-> TRUE, success |-> TRUE]

\* outputResults, summary disabled: the loop over results.guilds.values()
RECURSIVE GuildFlags(_, _)
GuildFlags(guilds, flags) ==
    IF Len(guilds) = 0 THEN flags
    ELSE LET data == Head(guilds).value
             failed == IF Len(data.commands) # 0 \/ Len(data.skipped) # 0
                       THEN FALSE ELSE flags.failed
             success == IF Len(data.errored) # 0 THEN TRUE ELSE flags.success
         IN  IF ~failed /\ ~success
             THEN [failed |-> failed, success |-> success]
             ELSE GuildFlags(Tail(guilds), [failed |-> failed, success |-> success])

\* outputResults, summary disabled: the status logged
CompletedStatus(results) ==
    LET first == GlobalFlags(results.global)
        flags == IF first.failed \/ first.success
                 THEN GuildFlags(results.guilds, first)
                 ELSE first
    IN  IF flags.failed THEN "Failed"
        ELSE IF flags.success THEN "Successful"
        ELSE "Partially Successful"

\* outputResults: a row of the summary table
SummaryRow(destination, data) ==
    [destination |-> destination,
     successful |-> Len(data.commands),
     skipped |-> Len(data.skipped),
     errored |-> IF data.bulkError # Absent THEN "All" ELSE Len(data.errored)]

\* outputResults(results, debug, dryRun, full, disableSummary): the lines
\* it logs
outputResults(results, debug, dryRun, full, disableSummary) ==
    IF results.error # Absent
    THEN <<[line |-> "Deployment Failed:"]>>
    ELSE IF results.global = Absent /\ Len(results.guilds) = 0
    THEN <<[line |-> "No Commmands Deployed"]>>
    ELSE IF Truthy(results.dev)
    THEN <<outputFull(results.dev, MapGet(results.guilds, results.dev[1]), dryRun)>>
    ELSE IF debug \/ dryRun \/ full
    THEN (IF results.global # Absent
          THEN <<outputFull(Absent, results.global[1], dryRun)>> ELSE <<>>)
         \o [k \in 1..Len(results.guilds) |->
                outputFull(Some(results.guilds[k].id), results.guilds[k].value, dryRun)]
    ELSE IF disableSummary
    THEN <<[line |-> "Deploy Completed:", status |-> CompletedStatus(results)]>>
    ELSE <<[line |-> "Summary",
            rows |-> (IF results.global # Absent
                      THEN <<SummaryRow(Absent, results.global[1])>> ELSE <<>>)
                     \o [k \in 1..Len(results.guilds) |->
                            SummaryRow(Some(results.guilds[k].id), results.guilds[k].value)]]>>

\* the results of one target: any combination of one created, one errored
\* and one skipped command, or a bulkError
TargetResults(guild) ==
    LET created == RemoteOf(CmdA, guild, 101)
        failed == [name |-> CmdB.name, command |-> CmdB, error |-> 500]
        matched == SkippedEntry([RemoteOf(CmdA, guild, 102) EXCEPT !.name = "c"],
                                [CmdA EXCEPT !.name = "c"])
    IN  {SingleResponse(Absent, c, e, s) :
            c \in {<<>>, <<created>>}, e \in {<<>>, <<failed>>}, s \in {<<>>, <<matched>>}}
        \cup {BulkErrorResponse(500)}

\* the reports deploy returns: a run error, a dev report, or a global result
\* and guild results in the order the guilds were deployed
DeployResponses ==
    {[EmptyResponse EXCEPT !.error = Some(401), !.global = g] :
        g \in {Absent} \cup {Some(d) : d \in TargetResults(Absent)}}
    \cup {DevReport(Fulfilled(d), "g1") : d \in TargetResults(Some("g1"))}
    \cup {[EmptyResponse EXCEPT !.global = g, !.guilds = guilds] :
            g \in {Absent} \cup {Some(d) : d \in TargetResults(Absent)},
            guilds \in {<<>>}
                \cup {<<[id |-> "g1", value |-> d]>> : d \in TargetResults(Some("g1"))}
                \cup {<<[id |-> "g1", value |-> d], [id |-> "g2", value |-> e]>> :
                        d \in TargetResults(Some("g1")), e \in TargetResults(Some("g2"))}}

OutputInit ==
    /\ \E results \in DeployResponses,
          flags \in [debug : BOOLEAN, dryRun : BOOLEAN, full : BOOLEAN, disableSummary : BOOLEAN] :
        log = [results |-> Some(results), flags |-> Some(flags), output |-> Absent]
    /\ cmp = NoComparison
    /\ store = NoStore
    /\ parts = NoParts
    /\ registered = NoneRegistered
    /\ Idle

\* outputResults(results, debug, dryRun, full, disableSummary)
OutputResults ==
    /\ log.results # Absent
    /\ log.output = Absent
    /\ log' = [log EXCEPT !.output =
                    Some(outputResults(log.results[1], log.flags[1].debug, log.flags[1].dryRun,
                                       log.flags[1].full, log.flags[1].disableSummary))]
    /\ UNCHANGED <<deployVars, cmp, store, parts, registered>>

OutputNext == OutputResults

OutputSpec == OutputInit /\ [][OutputNext]_vars

(***************************************************************************)
(* Properties                                                              *)
(***************************************************************************)
Done == pc = "done"

NormalMode == ~Truthy(config.devGuildId)

\* deploy returned a report (not null)
HasReport == promise.state = "fulfilled" /\ promise.value # Absent

Report == promise.value[1]

Targets == separateGlobalGuild(allCommands)

CallIdx == 1..Len(calls)

Failed(i) == calls[i].status \notin {0, 200}

GuildIndex(map, id) == CHOOSE k \in 1..Len(map) : map[k].id = id

\* the result the report holds for a route, as a sequence of length at most one
ResultOf(report, route) ==
    IF route = Absent THEN report.global
    ELSE IF MapHas(report.guilds, route[1]) THEN Some(MapGet(report.guilds, route[1]))
    ELSE Absent

IsBulkError(r, status) ==
    /\ r.bulkError = Some(status)
    /\ r.commands = <<>>
    /\ r.errored = <<>>
    /\ r.skipped = <<>>

\* every command of cmds is in r.skipped, in order, and nothing was added or errored
IsAllSkipped(r, cmds) ==
    /\ r.commands = <<>>
    /\ r.errored = <<>>
    /\ Len(r.skipped) = Len(cmds)
    /\ \A i \in 1..Len(cmds) :
        r.skipped[i].command = cmds[i] /\ r.skipped[i].name = cmds[i].name

\* C1: in normal mode a guild target that fails with 403 or 404 gets a
\* bulkError result with empty lists, the failure does not set the report's
\* error, and every later guild target is still deployed.
C1_GuildContainment ==
    (Done /\ NormalMode) =>
        \A i \in CallIdx :
            (calls[i].route # Absent /\ calls[i].status \in {403, 404}) =>
                LET g == calls[i].route[1]
                    order == Targets.guildCommands
                    Stopped == \E j \in CallIdx : j > i /\ calls[j].status = 401
                IN  /\ HasReport
                    /\ MapHas(Report.guilds, g)
                    /\ IsBulkError(MapGet(Report.guilds, g), calls[i].status)
                    /\ Report.error # Absent => Stopped
                    /\ \A k \in 1..Len(order) :
                        k > GuildIndex(order, g) =>
                            \/ Stopped
                            \/ /\ MapHas(Report.guilds, order[k].id)
                               /\ \E j \in CallIdx :
                                    j > i /\ calls[j].route = Some(order[k].id)

\* C1 witness: the first guild's create call failed with 404 and the second
\* guild has a populated result.
C1_Witness ==
    /\ Done /\ NormalMode /\ HasReport
    /\ Report.error = Absent
    /\ Len(Report.guilds) = 2
    /\ IsBulkError(Report.guilds[1].value, 404)
    /\ Len(Report.guilds[2].value.commands) > 0
    /\ \E i \in CallIdx :
        /\ calls[i].op = "post" /\ calls[i].status = 404
        /\ calls[i].route = Some(Report.guilds[1].id)

\* C2: in normal mode a global target failing with 401, 403 or 404 ends the
\* run: the report has error set, no global result and no guild entry, and
\* no call is made for any guild.
C2_GlobalFatalAborts ==
    NormalMode =>
        \A i \in CallIdx :
            (calls[i].route = Absent /\ calls[i].status \in {401, 403, 404}) =>
                /\ i = Len(calls)
                /\ \A j \in CallIdx : calls[j].route = Absent
                /\ pc \in {"settled", "done"}
                /\ Done =>
                    /\ HasReport
                    /\ Report.error = Some(calls[i].status)
                    /\ Report.global = Absent
                    /\ Report.guilds = <<>>

\* C2 witness: the global create call failed with 401 while guild commands
\* were supplied.
C2_Witness ==
    /\ Done /\ NormalMode /\ HasReport
    /\ Len(Targets.guildCommands) > 0
    /\ Len(calls) = 1 /\ calls[1].op = "post" /\ calls[1].status = 401
    /\ calls[1].route = Absent
    /\ Report.error = Some(401)

\* C3: in normal mode a 401 on a guild target is the last remote call of the
\* run, and deploy returns with the report's error set.
C3_Guild401Aborts ==
    NormalMode =>
        \A i \in CallIdx :
            (calls[i].route # Absent /\ calls[i].status = 401) =>
                /\ i = Len(calls)
                /\ pc \in {"settled", "done"}
                /\ Done => (HasReport /\ Report.error = Some(401))

\* C3 witness: a guild failed with 401 while a later guild was still to come.
C3_Witness ==
    /\ Done /\ NormalMode /\ HasReport
    /\ Len(guildQueue) > 0
    /\ Report.error = Some(401)
    /\ calls[Len(calls)].route # Absent
    /\ calls[Len(calls)].status = 401

\* C4: with dryRun no remote call is ever made, and the result of every
\* target (global, guild or dev) has all the target's commands in skipped,
\* in input order, with commands and errored empty.
C4_DryRun ==
    config.dryRun =>
        /\ calls = <<>>
        /\ (Done /\ Len(allCommands) > 0) =>
            /\ HasReport
            /\ Report.error = Absent
            /\ IF NormalMode
               THEN /\ (Report.global = Absent) = (Len(Targets.globalCommands) = 0)
                    /\ Report.global # Absent =>
                        IsAllSkipped(Report.global[1], Targets.globalCommands)
                    /\ Len(Report.guilds) = Len(Targets.guildCommands)
                    /\ \A k \in 1..Len(Report.guilds) :
                        /\ Report.guilds[k].id = Targets.guildCommands[k].id
                        /\ IsAllSkipped(Report.guilds[k].value,
                                        Targets.guildCommands[k].value)
               ELSE /\ Len(Report.guilds) = 1
                    /\ Report.guilds[1].id = config.devGuildId[1]
                    /\ IsAllSkipped(Report.guilds[1].value,
                                    [i \in 1..Len(allCommands) |-> allCommands[i].command])

\* C4 witness: a dry run with bulk and force set that reported a global and
\* a guild target.
C4_Witness ==
    /\ Done /\ config.dryRun /\ config.bulkOverwrite /\ config.force
    /\ NormalMode /\ HasReport
    /\ Report.global # Absent
    /\ Len(Report.global[1].skipped) = 2
    /\ Len(Report.guilds) > 0

IncrementalForce == config.force /\ ~config.bulkOverwrite /\ ~config.dryRun

PostsTo(route) ==
    SelectSeq(calls, LAMBDA c : c.op = "post" /\ c.route = route)

\* C5: with force in incremental mode no list call is made, each command
\* processed gives one create call, and no result has a skipped command.
C5_ForceCreatesAll ==
    IncrementalForce =>
        /\ \A i \in CallIdx : calls[i].op = "post"
        /\ skipped = <<>>
        /\ pc \in {"loop", "post"} =>
            LET posts == PostsTo(guildId)
            IN  /\ Len(posts) = (IF pc = "post" THEN idx ELSE idx - 1)
                /\ \A k \in 1..Len(posts) : posts[k].body = <<commands[k]>>
        /\ (Done /\ HasReport) =>
            /\ Report.global # Absent => Report.global[1].skipped = <<>>
            /\ \A k \in 1..Len(Report.guilds) : Report.guilds[k].value.skipped = <<>>

\* C5 witness: a forced run that created both commands of a target.
C5_Witness ==
    /\ Done /\ IncrementalForce /\ HasReport
    /\ Report.global # Absent
    /\ Len(Report.global[1].commands) = 2
    /\ Len(PostsTo(Absent)) = 2

\* the status stops the whole run when it hits the target of this route
RunFatal(route, status) ==
    IF route = Absent \/ ~NormalMode
    THEN status \in {401, 403, 404}
    ELSE status = 401

\* C6 as stated: whenever the overwrite call of a target fails, with any
\* status, the target's result is a bulkError with empty lists.
C6_Original ==
    Done =>
        \A i \in CallIdx :
            (calls[i].op = "put" /\ Failed(i)) =>
                /\ HasReport
                /\ ResultOf(Report, calls[i].route) # Absent
                /\ IsBulkError(ResultOf(Report, calls[i].route)[1], calls[i].status)

\* C6 amended: whenever the overwrite call of a target fails, the target has
\* no partial result: either the status stops the run (401, 403 or 404 on the
\* global or dev target, 401 on a guild), the report's error is set and the
\* target has no result, or the target's result is a bulkError with empty
\* commands, skipped and errored lists.
C6_BulkNeverPartial ==
    Done =>
        \A i \in CallIdx :
            (calls[i].op = "put" /\ Failed(i)) =>
                /\ HasReport
                /\ IF RunFatal(calls[i].route, calls[i].status)
                   THEN /\ Report.error = Some(calls[i].status)
                        /\ ResultOf(Report, calls[i].route) = Absent
                   ELSE /\ ResultOf(Report, calls[i].route) # Absent
                        /\ IsBulkError(ResultOf(Report, calls[i].route)[1],
                                       calls[i].status)

\* C6 witness: an overwrite of two commands failed with 500 and one of one
\* command failed with 404, both contained.
C6_Witness ==
    /\ Done /\ HasReport
    /\ Report.error = Absent
    /\ \E i, j \in CallIdx :
        /\ calls[i].op = "put" /\ calls[i].status = 500 /\ Len(calls[i].body) = 2
        /\ calls[j].op = "put" /\ calls[j].status = 404 /\ Len(calls[j].body) = 1

\* C7: with no command at all deploy returns null without any remote call.
C7_NothingToDeploy ==
    Len(allCommands) = 0 =>
        /\ calls = <<>>
        /\ pc \in {"start", "done"}
        /\ Done => promise = [state |-> "fulfilled", value |-> Absent, reason |-> 0]

\* C7 witness: deploy returned null in dev mode with bulk and force set.
C7_Witness ==
    /\ Done /\ Len(allCommands) = 0
    /\ ~NormalMode /\ config.bulkOverwrite /\ config.force
    /\ promise.state = "fulfilled" /\ promise.value = Absent

\* C8: in dev mode every remote call goes to the dev guild, the list
\* deployed is all commands of all types whatever their targets, and the
\* report has no global result.
C8_DevMode ==
    (~NormalMode /\ pc # "start" /\ Len(allCommands) > 0) =>
        /\ \A i \in CallIdx : calls[i].route = config.devGuildId
        /\ guildId = config.devGuildId
        /\ commands = [i \in 1..Len(allCommands) |-> allCommands[i].command]
        /\ \A i \in CallIdx : calls[i].op = "put" => calls[i].body = commands
        /\ (Done /\ HasReport) =>
            /\ Report.global = Absent
            /\ Report.dev = config.devGuildId
            /\ \A k \in 1..Len(Report.guilds) : Report.guilds[k].id = config.devGuildId[1]

\* C8 witness: dev mode created a command bound to no target and a global one.
C8_Witness ==
    /\ Done /\ ~NormalMode /\ HasReport
    /\ Len(allCommands) = 2
    /\ ~allCommands[1].global /\ allCommands[1].guildIds = Absent
    /\ allCommands[2].global
    /\ Len(calls) = 2
    /\ \A i \in CallIdx : calls[i].op = "post" /\ calls[i].status = 200
    /\ Len(Report.guilds[1].value.commands) = 2

\* the call that made the dev target fail, if any
DevFailures ==
    {i \in CallIdx :
        /\ Failed(i)
        /\ calls[i].op \in {"put", "get"} \/ calls[i].status \in {401, 403, 404}}

\* C9: a dev target failing with 401, 403 or 404 gives a report with error
\* and no guild entry; failing with another status gives a report without
\* error whose only entry is the dev guild's bulkError; a success gives
\* exactly the dev guild's entry.
C9_DevOutcome ==
    (Done /\ ~NormalMode /\ Len(allCommands) > 0) =>
        /\ HasReport
        /\ \A i \in DevFailures :
            IF calls[i].status \in {401, 403, 404}
            THEN Report.error = Some(calls[i].status) /\ Report.guilds = <<>>
            ELSE /\ Report.error = Absent
                 /\ Len(Report.guilds) = 1
                 /\ Report.guilds[1].id = config.devGuildId[1]
                 /\ Report.guilds[1].value.bulkError = Some(calls[i].status)
        /\ DevFailures = {} =>
            /\ Report.error = Absent
            /\ Len(Report.guilds) = 1
            /\ Report.guilds[1].id = config.devGuildId[1]
            /\ Report.guilds[1].value.bulkError = Absent
        /\ Report.error = Absent => MapHas(Report.guilds, config.devGuildId[1])

\* C9 witness: the dev target's list call failed with 500.
C9_Witness ==
    /\ Done /\ ~NormalMode /\ HasReport
    /\ Len(calls) = 1 /\ calls[1].op = "get" /\ calls[1].status = 500
    /\ Report.error = Absent
    /\ Report.guilds[1].value.bulkError = Some(500)

\* C10: whatever remote calls fail, deploy's promise is never rejected, the
\* run can always take its next step (from the start Deploy is enabled by its
\* guard alone), and it ends fulfilled.
C10_NeverRejects ==
    /\ promise.state # "rejected"
    /\ Done = (promise.state = "fulfilled")
    /\ Done \/ pc = "start" \/ ENABLED Next

\* C10 witness: a run with a failed list call, a failed create call and a
\* failed call of a guild ended fulfilled.
C10_Witness ==
    /\ Done /\ promise.state = "fulfilled"
    /\ \E i, j, k \in CallIdx :
        /\ calls[i].op = "get" /\ calls[i].status = 500
        /\ calls[j].op = "post" /\ calls[j].status = 500
        /\ calls[k].route # Absent /\ calls[k].status = 403

(***************************************************************************)
(* Properties of the comparator                                            *)
(***************************************************************************)
\* the comparator call of this kind has returned
Called(op) == cmp.op = op /\ cmp.applied

\* no two entries of the list have the same name
UniqueNames(seq) == \A i, j \in 1..Len(seq) : seq[i].name = seq[j].name => i = j

\* option names are unique in every option list and choice names are unique
\* in every choice list, at every depth
RECURSIVE WellNamed(_)
WellNamed(options) ==
    /\ UniqueNames(options)
    /\ \A i \in 1..Len(options) :
        /\ options[i].choices # Absent => UniqueNames(options[i].choices[1])
        /\ options[i].options # Absent => WellNamed(options[i].options[1])

\* the orderings of a list
Orderings(seq) ==
    {[i \in 1..Len(seq) |-> seq[p[i]]] :
        p \in {q \in [1..Len(seq) -> 1..Len(seq)] :
                \A i, j \in 1..Len(seq) : q[i] = q[j] => i = j}}

\* C11 as stated: for any command definition, the remote command built from
\* it with the remote-side defaults applied is equal to it for commandEquals.
C11_Original == Called("remote") => cmp.result

\* C11 amended: for any command definition whose option names are unique
\* within every option list and whose choice names are unique within every
\* choice list, the remote command built from it with the remote-side
\* defaults applied (type ChatInput when absent, dm_permission true when
\* absent) is equal to it for commandEquals.
C11_RemoteDefaultsEqual ==
    (/\ Called("remote")
     /\ cmp.desired.options # Absent => WellNamed(cmp.desired.options[1])) =>
        /\ cmp.existing.type = Coalesce(cmp.desired.type, ChatInput)
        /\ cmp.guild_id = Absent =>
            cmp.existing.dm_permission = Some(Coalesce(cmp.desired.dm_permission, TRUE))
        /\ cmp.result

\* C11 witness: a definition without type, description and dm_permission,
\* with two options of different names, created globally and found equal.
C11_Witness ==
    /\ Called("remote")
    /\ cmp.guild_id = Absent
    /\ cmp.desired.type = Absent
    /\ cmp.desired.description = Absent
    /\ cmp.desired.dm_permission = Absent
    /\ cmp.desired.options # Absent
    /\ Len(cmp.desired.options[1]) = 2
    /\ WellNamed(cmp.desired.options[1])
    /\ cmp.existing.type = ChatInput
    /\ cmp.existing.dm_permission = Some(TRUE)
    /\ cmp.result

\* C12 as stated: for any remote option list and any desired option list,
\* reordering the desired list does not change the result of optionsEqual.
C12_Original ==
    Called("optionsEqual") =>
        \A p \in Orderings(cmp.desired) : optionsEqual(cmp.existing, p) = cmp.result

\* C12 amended: for any remote option list and any desired option list in
\* which no two options have the same name, reordering the desired list
\* does not change the result of optionsEqual.
C12_OrderIrrelevant ==
    (Called("optionsEqual") /\ UniqueNames(cmp.desired)) =>
        \A p \in Orderings(cmp.desired) : optionsEqual(cmp.existing, p) = cmp.result

\* C12 witness: the desired list is the remote list of two options in the
\* other order, and the lists are equal.
C12_Witness ==
    /\ Called("optionsEqual")
    /\ Len(cmp.desired) = 2
    /\ UniqueNames(cmp.desired)
    /\ cmp.existing = <<cmp.desired[2], cmp.desired[1]>>
    /\ cmp.result

\* the two options of an optionEquals call differ at most in this field
SameBut(field) ==
    \A f \in DOMAIN cmp.existing : f # field => cmp.existing[f] = cmp.desired[f]

\* an optionEquals call on two choice-bearing options that both have
\* choices, are not autocomplete and are otherwise equal
ChoicesCall ==
    /\ Called("optionEquals")
    /\ isChoicesOption(cmp.existing) /\ isChoicesOption(cmp.desired)
    /\ cmp.existing.choices # Absent /\ cmp.desired.choices # Absent
    /\ cmp.existing.autocomplete # Some(TRUE)
    /\ SameBut("choices")

\* list b is list a with the entry at one position left out
Removed(a, b) ==
    \E i \in 1..Len(a) : b = SubSeq(a, 1, i - 1) \o SubSeq(a, i + 1, Len(a))

\* list b is list a with the name of one choice changed
Renamed(a, b) ==
    /\ Len(a) = Len(b)
    /\ \E i \in 1..Len(a) :
        /\ b[i].name # a[i].name /\ b[i].value = a[i].value
        /\ \A j \in 1..Len(a) : j # i => b[j] = a[j]

\* list b is list a with the value of one choice changed, its name kept
Revalued(a, b) ==
    /\ Len(a) = Len(b)
    /\ \E i \in 1..Len(a) :
        /\ b[i].name = a[i].name /\ b[i].value # a[i].value
        /\ \A j \in 1..Len(a) : j # i => b[j] = a[j]

\* what C13 says of a pair of choice lists: the desired list, started as a
\* copy of the remote one that compares equal
ChoicesVerdict(a, b) ==
    /\ (b \in Orderings(a) /\ optionEquals(cmp.existing, cmp.existing)) => cmp.result
    /\ (Removed(a, b) \/ Renamed(a, b) \/ Revalued(a, b)) => ~cmp.result

\* C13 as stated: for two choice-bearing options that are otherwise equal
\* and not autocomplete, optionEquals stays true when the desired choices
\* are reordered, and is false when a choice is removed, renamed, or given
\* another value under the same name.
C13_Original ==
    ChoicesCall => ChoicesVerdict(cmp.existing.choices[1], cmp.desired.choices[1])

\* C13 amended: for two choice-bearing options that are otherwise equal and
\* not autocomplete, where no two choices of the remote option have the same
\* name, optionEquals is true when the desired choices are the remote ones
\* reordered, and is false when a choice is removed, renamed, or given
\* another value under the same name.
C13_Choices ==
    (ChoicesCall /\ UniqueNames(cmp.existing.choices[1])) =>
        LET a == cmp.existing.choices[1]
            b == cmp.desired.choices[1]
        IN  /\ b \in Orderings(a) => cmp.result
            /\ (Removed(a, b) \/ Renamed(a, b) \/ Revalued(a, b)) => ~cmp.result

\* C13 witness: the value of the second of two choices was changed under
\* the same name, and the options are not equal.
C13_Witness ==
    /\ ChoicesCall
    /\ UniqueNames(cmp.existing.choices[1])
    /\ Len(cmp.existing.choices[1]) = 2
    /\ Len(cmp.desired.choices[1]) = 2
    /\ cmp.desired.choices[1][1] = cmp.existing.choices[1][1]
    /\ Revalued(cmp.existing.choices[1], cmp.desired.choices[1])
    /\ ~cmp.result

\* an optionEquals call on two Channel options that both list channel
\* types and agree on every other field
ChannelCall ==
    /\ Called("optionEquals")
    /\ isChannelOption(cmp.existing) /\ isChannelOption(cmp.desired)
    /\ cmp.existing.channel_types # Absent /\ cmp.desired.channel_types # Absent
    /\ SameBut("channel_types")

Elements(seq) == {seq[i] : i \in 1..Len(seq)}

NoRepeats(seq) == \A i, j \in 1..Len(seq) : seq[i] = seq[j] => i = j

\* C14 as stated: for two Channel options that agree on all common fields,
\* optionEquals is true exactly when the two channel type lists are equal
\* as sets.
C14_Original ==
    ChannelCall =>
        cmp.result = (Elements(cmp.existing.channel_types[1])
                        = Elements(cmp.desired.channel_types[1]))

\* C14 amended: for two Channel options that agree on all common fields and
\* whose channel type lists each name no type twice, optionEquals is true
\* exactly when the two lists are equal as sets, whatever their order.
C14_ChannelTypes ==
    (/\ ChannelCall
     /\ NoRepeats(cmp.existing.channel_types[1])
     /\ NoRepeats(cmp.desired.channel_types[1])) =>
        cmp.result = (Elements(cmp.existing.channel_types[1])
                        = Elements(cmp.desired.channel_types[1]))

\* C14 witness: the same two channel types in the other order, found equal.
C14_Witness ==
    /\ ChannelCall
    /\ cmp.existing.channel_types = Some(<<0, 2>>)
    /\ cmp.desired.channel_types = Some(<<2, 0>>)
    /\ cmp.result

\* C15: two Integer or Number options are equal for optionEquals only if
\* min_value is identical on both sides and max_value is identical on both
\* sides, an absent bound being different from every number; and when they
\* agree on every other field, identical bounds make them equal.
C15_MinMax ==
    (/\ Called("optionEquals")
     /\ cmp.existing.type \in {OptInteger, OptNumber}
     /\ cmp.desired.type \in {OptInteger, OptNumber}) =>
        /\ cmp.result =>
            /\ cmp.existing.min_value = cmp.desired.min_value
            /\ cmp.existing.max_value = cmp.desired.max_value
        /\ cmp.existing = cmp.desired => cmp.result

\* C15 witness: two Number options where only the desired one has no
\* min_value, found different.
C15_Witness ==
    /\ Called("optionEquals")
    /\ cmp.existing.type = OptNumber /\ cmp.desired.type = OptNumber
    /\ cmp.existing.min_value = Some(0) /\ cmp.desired.min_value = Absent
    /\ SameBut("min_value")
    /\ ~cmp.result

\* a commandEquals call where one side has an empty option list and the
\* other has no option list
EmptyAgainstAbsent ==
    /\ Called("commandEquals")
    /\ \/ cmp.desired.options = Some(<<>>) /\ cmp.existing.options = Absent
       \/ cmp.desired.options = Absent /\ cmp.existing.options = Some(<<>>)

\* the two commands of a commandEquals call are equal once the option lists
\* are left out on both sides
EqualWithoutOptions ==
    commandEquals([cmp.existing EXCEPT !.options = Absent],
                  [cmp.desired EXCEPT !.options = Absent])

\* C16 as stated: an absent option list counts as one of length zero, so a
\* desired command with an empty option list and a remote command with no
\* option list (or the reverse), equal in every other field, are equal.
C16_Original == (EmptyAgainstAbsent /\ EqualWithoutOptions) => cmp.result

\* C16 amended: commandEquals compares the lengths of the two option lists
\* with an absent list different from every length, zero included: a desired
\* command with an empty option list and a remote command with no option
\* list (or the reverse) are reported not equal, whatever their other
\* fields; two commands that both have no option list, or both an empty one,
\* and are equal in every other field are reported equal.
C16_AbsentIsNotEmpty ==
    Called("commandEquals") =>
        /\ EmptyAgainstAbsent => ~cmp.result
        /\ (/\ cmp.desired.options = cmp.existing.options
            /\ cmp.desired.options \in {Absent, Some(<<>>)}
            /\ EqualWithoutOptions) => cmp.result

\* C16 witness: the desired command has an empty option list, the remote
\* one has none, every other field agrees, and they are not equal.
C16_Witness ==
    /\ Called("commandEquals")
    /\ cmp.desired.options = Some(<<>>)
    /\ cmp.existing.options = Absent
    /\ EqualWithoutOptions
    /\ ~cmp.result

RemoteDescriptions == {"", "various tests", "another description"}

\* C17: when the desired command has no description the result of
\* commandEquals is the same for every description of the remote command;
\* when it has one, the result is false unless the two are identical.
C17_Description ==
    Called("commandEquals") =>
        IF cmp.desired.description = Absent
        THEN \A d \in RemoteDescriptions :
                commandEquals([cmp.existing EXCEPT !.description = d], cmp.desired)
                    = cmp.result
        ELSE cmp.result => cmp.desired.description = Some(cmp.existing.description)

\* C17 witness: a desired command without description found equal to a
\* remote command that has a description.
C17_Witness ==
    /\ Called("commandEquals")
    /\ cmp.desired.description = Absent
    /\ cmp.existing.description = "various tests"
    /\ cmp.result

\* a remote list holding a Message command ahead of the remote command of
\* the call, both under the same name
TwoTypes == <<[cmp.existing EXCEPT !.type = Message], cmp.existing>>

\* C18: the type a desired command is compared and looked up under is its
\* own, or ChatInput when it has none: commandEquals is true only for a
\* remote command of that type, and the lookup of the incremental deploy
\* returns the first remote command of that type and of the same name,
\* nothing when there is none.
C18_TypeDefault ==
    Called("commandEquals") =>
        LET effective == Coalesce(cmp.desired.type, ChatInput)
            found == ExistingFor(TwoTypes, cmp.desired)
        IN  /\ cmp.result => cmp.existing.type = effective
            /\ found = IF /\ cmp.existing.type = effective
                          /\ cmp.existing.name = cmp.desired.name
                       THEN Some(cmp.existing)
                       ELSE Absent

\* C18 witness: a desired command without type that equals a ChatInput
\* remote command and is matched with it, not with the Message command of
\* the same name listed first.
C18_Witness ==
    /\ Called("commandEquals")
    /\ cmp.desired.type = Absent
    /\ cmp.existing.type = ChatInput
    /\ ExistingFor(TwoTypes, cmp.desired) = Some(cmp.existing)
    /\ cmp.result

DmPermissions == {Absent, Some(TRUE), Some(FALSE)}

\* C19: for a remote command without guild_id commandEquals is true only if
\* the desired dm_permission, true when absent, is the remote's; for a
\* remote command with a guild_id the result is the same for every
\* dm_permission on either side.
C19_DmPermission ==
    Called("commandEquals") =>
        IF cmp.existing.guild_id = Absent
        THEN cmp.result =>
                cmp.existing.dm_permission = Some(Coalesce(cmp.desired.dm_permission, TRUE))
        ELSE \A r \in DmPermissions, d \in DmPermissions :
                commandEquals([cmp.existing EXCEPT !.dm_permission = r],
                              [cmp.desired EXCEPT !.dm_permission = d]) = cmp.result

\* C19 witness: a guild command found equal although the desired
\* dm_permission is false and the remote one is true.
C19_Witness ==
    /\ Called("commandEquals")
    /\ cmp.existing.guild_id # Absent
    /\ cmp.desired.dm_permission = Some(FALSE)
    /\ cmp.existing.dm_permission = Some(TRUE)
    /\ cmp.result

(***************************************************************************)
(* Properties of the deploy, continued                                     *)
(***************************************************************************)
\* a target result with bulkError set has nothing in its three lists
Abandoned(r) ==
    r.bulkError # Absent => (r.commands = <<>> /\ r.errored = <<>> /\ r.skipped = <<>>)

\* C20: in every report deploy returns, a target result (global or guild)
\* that has bulkError set has empty commands, errored and skipped lists.
C20_BulkErrorIsEmpty ==
    HasReport =>
        /\ Report.global # Absent => Abandoned(Report.global[1])
        /\ \A k \in 1..Len(Report.guilds) : Abandoned(Report.guilds[k].value)

\* C20 witness: a guild target whose first command was created and whose
\* second create call failed with 403 is reported with bulkError and empty
\* lists.
C20_Witness ==
    /\ Done /\ NormalMode /\ HasReport
    /\ \E k \in 1..Len(Report.guilds), i, j \in CallIdx :
        /\ IsBulkError(Report.guilds[k].value, 403)
        /\ i < j
        /\ calls[i].op = "post" /\ calls[i].status = 200
        /\ calls[j].op = "post" /\ calls[j].status = 403
        /\ calls[i].route = Some(Report.guilds[k].id)
        /\ calls[j].route = Some(Report.guilds[k].id)

(***************************************************************************)
(* Properties of storeConfig                                               *)
(***************************************************************************)
Stored == store.returned # Absent /\ store.file # Absent

\* C21: the text storeConfig writes has no token key, for every config and
\* every file name, and is the same text whatever the token of the config
\* passed in is; a call that returns false has written nothing.
C21_TokenNeverStored ==
    /\ Stored =>
        /\ \A i \in 1..Len(store.file[1].entries) : store.file[1].entries[i].key # "token"
        /\ \A t \in {Absent, Some("secret"), Some("other")} :
            storeConfig([store.config[1] EXCEPT !.token = t], store.name[1]) = store.file[1]
    /\ store.returned = Some(FALSE) => store.file = Absent

\* C21 witness: a config with a token was written to a js file, with the
\* other keys it holds.
C21_Witness ==
    /\ Stored
    /\ store.config[1].token = Some("secret")
    /\ store.name[1][2] = ".js"
    /\ store.file[1].prefix = "module.exports = "
    /\ \E i \in 1..Len(store.file[1].entries) :
        store.file[1].entries[i] = [key |-> "clientId", quoted |-> FALSE, value |-> "id"]

Incremental == ~config.force /\ ~config.bulkOverwrite /\ ~config.dryRun

\* the positions of the fetched remote commands that have the effective
\* type and the name of the command
Matching(command) ==
    {i \in 1..Len(existingCommands) :
        /\ existingCommands[i].type = Coalesce(command.type, ChatInput)
        /\ existingCommands[i].name = command.name}

FirstMatching(command) ==
    existingCommands[CHOOSE i \in Matching(command) : \A j \in Matching(command) : i <= j]

\* the first matching remote command exists and commandEquals holds for it
UpToDate(command) ==
    /\ Matching(command) # {}
    /\ commandEquals(FirstMatching(command), command)

\* the commands of the current target decided so far
Decided == SubSeq(commands, 1, IF pc = "post" THEN idx ELSE idx - 1)

\* C22: in incremental non-force mode the skipped entries of a target are,
\* in order, the commands whose first matching remote command (same
\* effective type, same name) is equal to them for commandEquals, each with
\* that remote command and its id, and the create calls of the target are,
\* in order, one for each other command.
C22_SkipOrCreate ==
    (Incremental /\ pc \in {"loop", "post"}) =>
        LET skips == SelectSeq(Decided, UpToDate)
            creates == SelectSeq(Decided, LAMBDA c : ~UpToDate(c))
            posts == PostsTo(guildId)
        IN  /\ Len(skipped) = Len(skips)
            /\ \A k \in 1..Len(skips) :
                /\ skipped[k].command = skips[k]
                /\ skipped[k].name = skips[k].name
                /\ skipped[k].existing = Some(FirstMatching(skips[k]))
                /\ skipped[k].id = Some(FirstMatching(skips[k]).id)
            /\ Len(posts) = Len(creates)
            /\ \A k \in 1..Len(creates) : posts[k].body = <<creates[k]>>

\* C22 witness: the first command of the target was skipped with the remote
\* command it is equal to, and the second, which has the same name and
\* another type, is being created.
C22_Witness ==
    /\ Incremental /\ pc = "post"
    /\ idx = 2
    /\ Len(skipped) = 1
    /\ skipped[1].existing = Some(existingCommands[1])
    /\ commands[2].name = commands[1].name
    /\ Matching(commands[2]) = {}
    /\ PostsTo(guildId)[1].body = <<commands[2]>>

\* the command list deployed to the target of a route, given the targets
\* of the run
CommandsIn(targets, route) ==
    IF ~NormalMode THEN [i \in 1..Len(allCommands) |-> allCommands[i].command]
    ELSE IF route = Absent THEN targets.globalCommands
    ELSE MapGet(targets.guildCommands, route[1])

\* the command list deployed to the target of a route
CommandsOf(route) == CommandsIn(Targets, route)

\* call i is a create call that failed with a status outside 401, 403, 404
SoftFailure(i) ==
    /\ calls[i].op = "post"
    /\ Failed(i)
    /\ calls[i].status \notin {401, 403, 404}

\* the errored entries the failed create calls of a route give, in call order
ErroredOf(route) ==
    LET failed == SelectSeq(calls, LAMBDA c :
                      /\ c.op = "post" /\ c.route = route
                      /\ c.status \notin {0, 200, 401, 403, 404})
    IN  [k \in 1..Len(failed) |->
            [name |-> failed[k].body[1].name, command |-> failed[k].body[1],
             error |-> failed[k].status]]

\* a create call of the route failed with 401, 403 or 404
HardFailure(route) ==
    \E j \in CallIdx :
        calls[j].op = "post" /\ calls[j].route = route /\ calls[j].status \in {401, 403, 404}

\* C23: a create call failing with a status outside 401, 403, 404 puts the
\* command and its error in the target's errored list; the rest of the
\* target's commands are still processed (every command of the target ends
\* up created, errored or skipped unless a later create call of the target
\* fails with 401, 403 or 404); the failure is never the report's error, and
\* every target of a run it is the only kind of failure in is reported.
C23_SoftFailureContained ==
    /\ pc \in {"loop", "post"} => errored = ErroredOf(Route(guildId))
    /\ (Done /\ HasReport /\ \E i \in CallIdx : SoftFailure(i)) =>
        LET targets == Targets
        IN  /\ \A i \in CallIdx :
                SoftFailure(i) =>
                    LET route == calls[i].route
                        res == ResultOf(Report, route)
                    IN  /\ Report.error # Some(calls[i].status)
                        /\ Report.error = Absent => res # Absent
                        /\ (res # Absent /\ ~HardFailure(route)) =>
                            /\ res[1].bulkError = Absent
                            /\ res[1].errored = ErroredOf(route)
                            /\ Len(res[1].commands) + Len(res[1].errored)
                                    + Len(res[1].skipped)
                                   = Len(CommandsIn(targets, route))
            /\ (NormalMode /\ Report.error = Absent) =>
                /\ (Report.global # Absent) = (Len(targets.globalCommands) > 0)
                /\ \A k \in 1..Len(targets.guildCommands) :
                    MapHas(Report.guilds, targets.guildCommands[k].id)

\* C23 witness: the first create call of the global target failed with 500,
\* the second command of the target was created, and a guild target was
\* deployed afterwards.
C23_Witness ==
    /\ Done /\ NormalMode /\ HasReport
    /\ Report.error = Absent
    /\ Report.global # Absent
    /\ Len(Report.global[1].errored) = 1
    /\ Report.global[1].errored[1].error = 500
    /\ Len(Report.global[1].commands) = 1
    /\ calls[1].op = "post" /\ calls[1].status = 500
    /\ Len(Report.guilds) = 1
    /\ Len(Report.guilds[1].value.commands) = 1

\* C24: once a create call of a target fails with 401, 403 or 404 it is the
\* last call made for that target: no later call goes to the target's
\* route, and the run is past the target's loop.
C24_NoCreateAfterFatal ==
    \A i \in CallIdx :
        (calls[i].op = "post" /\ calls[i].status \in {401, 403, 404}) =>
            /\ \A j \in CallIdx : j > i => calls[j].route # calls[i].route
            /\ Route(guildId) = calls[i].route => pc \in {"settled", "guilds", "done"}

\* C24 witness: the first of the two commands of a guild failed with 403,
\* the second was never sent, and the next guild was deployed.
C24_Witness ==
    /\ Done /\ NormalMode /\ HasReport
    /\ Len(Targets.guildCommands) = 2
    /\ Len(Targets.guildCommands[1].value) = 2
    /\ Len(PostsTo(Some(Targets.guildCommands[1].id))) = 1
    /\ PostsTo(Some(Targets.guildCommands[1].id))[1].status = 403
    /\ Len(PostsTo(Some(Targets.guildCommands[2].id))) = 1

BulkMode == config.bulkOverwrite /\ ~config.dryRun

\* C25: in bulk mode without dry-run every remote call is an overwrite call
\* carrying the whole command list of its target, whatever force is; each
\* target gets one such call, made as soon as the target is entered; when
\* the call succeeds the target's result has the returned remote commands as
\* its commands, no bulkError, and empty skipped and errored lists.
C25_BulkOverwrite ==
    BulkMode =>
        /\ LET targets == Targets
           IN  \A i \in CallIdx :
                   /\ calls[i].op = "put"
                   /\ calls[i].body = CommandsIn(targets, calls[i].route)
                   /\ \A j \in CallIdx : calls[j].route = calls[i].route => j = i
        /\ pc \in {"put", "settled"} => calls[Len(calls)].route = Route(guildId)
        /\ pc = "settled" =>
            (calls[Len(calls)].status = 200) = (~deployed.isError)
        /\ (Done /\ HasReport) =>
            \A i \in CallIdx :
                calls[i].status = 200 =>
                    ResultOf(Report, calls[i].route) =
                        Some(SingleResponse(Absent,
                                [k \in 1..Len(calls[i].body) |->
                                    RemoteOf(calls[i].body[k], calls[i].route, i * 10 + k)],
                                <<>>, <<>>))

\* C25 witness: with bulk and force both set, the global list of two
\* commands and a guild list were each overwritten by one call.
C25_Witness ==
    /\ Done /\ BulkMode /\ config.force /\ NormalMode /\ HasReport
    /\ Len(calls) = 2
    /\ calls[1].route = Absent /\ Len(calls[1].body) = 2 /\ calls[1].status = 200
    /\ calls[2].route # Absent /\ calls[2].status = 200
    /\ Len(Report.global[1].commands) = 2
    /\ Len(Report.guilds) = 1

\* the guild ids of the command list, in the order in which they are written
RECURSIVE WrittenIds(_)
WrittenIds(cmds) ==
    IF Len(cmds) = 0 THEN <<>>
    ELSE Coalesce(Head(cmds).guildIds, <<>>) \o WrittenIds(Tail(cmds))

\* the place of a target in the run: the global target first, then the
\* guilds by the first place at which their id is written
Rank(route) ==
    IF route = Absent THEN 0
    ELSE LET ids == WrittenIds(allCommands)
         IN  CHOOSE k \in 1..Len(ids) :
                ids[k] = route[1] /\ \A j \in 1..(k - 1) : ids[j] # route[1]

\* C26: at most one remote call is outstanding at any time, and it is the
\* latest one: every call but the latest has completed, and the latest is
\* outstanding only while the run waits for it.  Whenever the latest call
\* is for another target than the call before it, that target comes later
\* in the order global target first, then the guilds in the order in which
\* their ids first appear in the command list, and no earlier call was made
\* for it.  Calls being made one at a time, this holds of every call when
\* it is made: the calls of the global target all precede those of the guild
\* targets, and the calls of one guild target are never interleaved with
\* those of another.
C26_OneCallAtATime ==
    /\ \A j \in 2..Len(calls) : calls[j - 1].status # 0
    /\ (Len(calls) > 0 /\ calls[Len(calls)].status = 0) =>
            pc \in {"put", "get", "post"}
    /\ LET n == Len(calls)
       IN  (NormalMode /\ n > 1 /\ calls[n].route # calls[n - 1].route) =>
                /\ Rank(calls[n - 1].route) < Rank(calls[n].route)
                /\ \A i \in 1..(n - 1) : calls[i].route # calls[n].route

\* C26 witness: guild g2, whose id is written first, was called and its
\* calls completed, then guild g1 was called, and that last call is still
\* outstanding.
C26_Witness ==
    /\ NormalMode
    /\ WrittenIds(allCommands) = <<"g2", "g1", "g2">>
    /\ Len(calls) > 2
    /\ calls[1].route = Some("g2")
    /\ calls[Len(calls) - 1].route = Some("g2")
    /\ calls[Len(calls)].route = Some("g1")
    /\ calls[Len(calls)].status = 0

(***************************************************************************)
(* Properties of separateGlobalGuild                                       *)
(***************************************************************************)
Separated == parts.returned # Absent

\* the commands of the entries that satisfy a test, in input order
CommandsWhere(cmds, Test(_)) ==
    LET sel == SelectSeq(cmds, Test)
    IN  [i \in 1..Len(sel) |-> sel[i].command]

IdsOf(c) == Coalesce(c.guildIds, <<>>)

Lists(c, g) == \E j \in 1..Len(IdsOf(c)) : IdsOf(c)[j] = g

TimesListed(c, g) == Cardinality({j \in 1..Len(IdsOf(c)) : IdsOf(c)[j] = g})

\* each command as many times as its guildIds names g, in input order
RECURSIVE BucketOf(_, _)
BucketOf(cmds, g) ==
    IF Len(cmds) = 0 THEN <<>>
    ELSE [k \in 1..TimesListed(Head(cmds), g) |-> Head(cmds).command]
         \o BucketOf(Tail(cmds), g)

Keys(map) == {map[k].id : k \in 1..Len(map)}

\* C27 as stated: the bucket of g holds each command whose guildIds contains
\* g exactly once, in input order.
C27_Original ==
    Separated =>
        LET guilds == parts.returned[1].guildCommands
        IN  \A k \in 1..Len(guilds) :
                guilds[k].value =
                    CommandsWhere(parts.commands, LAMBDA c : Lists(c, guilds[k].id))

\* C27: separateGlobalGuild returns as global list the commands whose global
\* flag is true, in input order; the guild ids with a bucket are the ids
\* some command lists, each with one bucket; the bucket of g holds, in input
\* order, each command as many times as its guildIds names g, which is once
\* when no id is repeated; a command that is not global and lists no guild
\* is in no list.
C27_Partition ==
    Separated =>
        LET cmds == parts.commands
            globals == parts.returned[1].globalCommands
            guilds == parts.returned[1].guildCommands
        IN  /\ globals = CommandsWhere(cmds, LAMBDA c : c.global)
            /\ Keys(guilds) = {g \in {"g1", "g2"} : \E i \in 1..Len(cmds) : Lists(cmds[i], g)}
            /\ \A k, l \in 1..Len(guilds) : guilds[k].id = guilds[l].id => k = l
            /\ \A k \in 1..Len(guilds) : guilds[k].value = BucketOf(cmds, guilds[k].id)
            /\ (\A i \in 1..Len(cmds) : ~cmds[i].global /\ IdsOf(cmds[i]) = <<>>) =>
                    globals = <<>> /\ guilds = <<>>

\* C27 witness: a global command listing g2 then g1, followed by a command
\* that is in no list, was separated into the global list and two buckets.
C27_Witness ==
    /\ Separated
    /\ Len(parts.commands) = 2
    /\ parts.commands[1] = [command |-> CmdA, global |-> TRUE, guildIds |-> Some(<<"g2", "g1">>)]
    /\ parts.commands[2] = [command |-> CmdB, global |-> FALSE, guildIds |-> Some(<<>>)]
    /\ parts.returned[1] =
        [globalCommands |-> <<CmdA>>,
         guildCommands |-> <<[id |-> "g2", value |-> <<CmdA>>],
                             [id |-> "g1", value |-> <<CmdA>>]>>]

\* the calls of one kind made for a route
CallsOf(op, route) == {i \in CallIdx : calls[i].op = op /\ calls[i].route = route}

\* C28: once the calls of a target are followed by a call of another target
\* no further call is made for it, so no target is entered twice; a list or
\* overwrite call is the first call of its target, so there is at most one
\* per target; while a target is being processed every entry already passed
\* was either skipped or given exactly one create call, whether that call
\* succeeded or failed, and the create call outstanding is for the entry
\* being processed; no guild has two results in the report.
C28_NoRetry ==
    /\ \A j \in 2..Len(calls) :
        /\ calls[j].route # calls[j - 1].route =>
                \A i \in 1..(j - 1) : calls[i].route # calls[j].route
        /\ calls[j].op \in {"get", "put"} => calls[j].route # calls[j - 1].route
    /\ pc \in {"loop", "post"} =>
        /\ Cardinality(CallsOf("post", Route(guildId))) + Len(skipped)
                = idx - 1 + (IF pc = "post" THEN 1 ELSE 0)
        /\ Len(added) + Len(errored) + Len(skipped) = idx - 1
        /\ pc = "post" => calls[Len(calls)].body = <<commands[idx]>>
    /\ (Done /\ HasReport) =>
        \A k, l \in 1..Len(Report.guilds) :
            Report.guilds[k].id = Report.guilds[l].id => k = l

\* C28 witness: a target of two commands was listed once, the create call
\* of its first command failed with 500, and the next call made was the
\* create call of its second command.
C28_Witness ==
    /\ Done
    /\ Len(calls) = 3
    /\ calls[1].op = "get"
    /\ calls[2].op = "post" /\ calls[2].status = 500
    /\ calls[3].op = "post" /\ calls[3].status = 200
    /\ calls[2].route = calls[1].route /\ calls[3].route = calls[1].route
    /\ calls[2].body = <<CommandsOf(calls[1].route)[1]>>
    /\ calls[3].body = <<CommandsOf(calls[1].route)[2]>>
    /\ calls[2].body # calls[3].body

\* exactly one of the two commands of a commandEquals call has an option list
OneSidedOptions ==
    /\ Called("commandEquals")
    /\ (cmp.desired.options = Absent) # (cmp.existing.options = Absent)

\* C29: commandEquals returns false when exactly one of the desired and the
\* remote command has an option list, whether that list is empty or not and
\* whichever side has it.
C29_OneSidedOptions == OneSidedOptions => ~cmp.result

\* C29 witness: the desired command has no options field, the remote one
\* has a list of one option, every other field agrees, and they are not
\* equal.
C29_Witness ==
    /\ OneSidedOptions
    /\ cmp.desired.options = Absent
    /\ cmp.existing.options # Absent /\ Len(cmp.existing.options[1]) = 1
    /\ commandEquals([cmp.existing EXCEPT !.options = Absent], cmp.desired)
    /\ ~cmp.result

\* an optionEquals call on two choice-bearing options
ChoiceBearingCall ==
    /\ Called("optionEquals")
    /\ cmp.existing.type \in {OptString, OptInteger, OptNumber}
    /\ cmp.desired.type \in {OptString, OptInteger, OptNumber}

\* C30: for two choice-bearing options optionEquals holds only when the
\* autocomplete fields are identical, a missing field being different from
\* false: a desired option with autocomplete false against a remote option
\* with no autocomplete field is not equal.
C30_AutocompleteIdentity ==
    ChoiceBearingCall =>
        /\ cmp.result => cmp.existing.autocomplete = cmp.desired.autocomplete
        /\ (cmp.desired.autocomplete = Some(FALSE) /\ cmp.existing.autocomplete = Absent) =>
                ~cmp.result

\* C30 witness: an Integer option with autocomplete false is compared with
\* a remote option that differs from it only in having no autocomplete
\* field, and they are not equal.
C30_Witness ==
    /\ ChoiceBearingCall
    /\ cmp.desired.type = OptInteger
    /\ cmp.desired.autocomplete = Some(FALSE)
    /\ cmp.existing.autocomplete = Absent
    /\ SameBut("autocomplete")
    /\ ~cmp.result

(***************************************************************************)
(* Nested options                                                          *)
(***************************************************************************)
\* the names of a list are those of distinct options, at every depth
RECURSIVE UniquelyNamed(_)
UniquelyNamed(options) ==
    /\ UniqueNames(options)
    /\ \A i \in 1..Len(options) :
        options[i].options # Absent => UniquelyNamed(options[i].options[1])

\* some option of the desired list, at any depth, has no remote option of
\* its name under the same parent, or differs from one in type, description
\* or number of children; or the two lists differ in length
RECURSIVE Differs(_, _)
Differs(existing, options) ==
    \/ Len(existing) # Len(options)
    \/ \E j \in 1..Len(options) :
        \/ \A i \in 1..Len(existing) : existing[i].name # options[j].name
        \/ \E i \in 1..Len(existing) :
            /\ existing[i].name = options[j].name
            /\ \/ existing[i].type # options[j].type
               \/ existing[i].description # options[j].description
               \/ /\ existing[i].type \in {OptSubcommand, OptSubcommandGroup}
                  /\ \/ (existing[i].options = Absent) # (options[j].options = Absent)
                     \/ /\ existing[i].options # Absent
                        /\ Differs(existing[i].options[1], options[j].options[1])

\* a commandEquals call on two commands that both have options
NestedCall ==
    /\ Called("commandEquals")
    /\ cmp.existing.options # Absent /\ cmp.desired.options # Absent

\* C31 as stated: commandEquals is false whenever an option of the desired
\* command, at any depth, differs from a remote option of the same name and
\* parent path in name, type, description or number of children.
C31_Original ==
    (NestedCall /\ Differs(cmp.existing.options[1], cmp.desired.options[1])) => ~cmp.result

\* C31 amended: when the option names of the remote command are unique in
\* every list, commandEquals is false whenever an option of the desired
\* command, at any depth, has no remote option of its name under the same
\* parent or differs from it in type, description or number of children.
C31_NestedDifference ==
    (/\ NestedCall
     /\ UniquelyNamed(cmp.existing.options[1])
     /\ Differs(cmp.existing.options[1], cmp.desired.options[1])) => ~cmp.result

\* C31 witness: the two commands agree in every field, in the group and in
\* the subcommand, the one argument of the subcommand differs in its type
\* only, and they are not equal.
C31_Witness ==
    /\ NestedCall
    /\ Len(cmp.existing.options[1]) = 1 /\ Len(cmp.desired.options[1]) = 1
    /\ LET eg == cmp.existing.options[1][1]
           dg == cmp.desired.options[1][1]
       IN  /\ eg.type = OptSubcommandGroup
           /\ eg.options # Absent /\ dg.options # Absent
           /\ dg = [eg EXCEPT !.options = dg.options]
           /\ LET es == eg.options[1][1]
                  ds == dg.options[1][1]
              IN  /\ es.options = Some(<<StringOption>>)
                  /\ ds = [es EXCEPT !.options = Some(<<Option("string", OptInteger)>>)]
    /\ EqualWithoutOptions
    /\ ~cmp.result

(***************************************************************************)
(* Incremental deployment of one target                                    *)
(***************************************************************************)
\* deploySingleDestination runs its loop: neither a dry run nor an overwrite
IncrementalMode == ~config.dryRun /\ ~config.bulkOverwrite

\* deploySingleDestination has returned normally for the current target
ReturnedNormally == pc = "settled" /\ ~deployed.isError

Occurrences(list, Is(_)) == Len(SelectSeq(list, Is))

\* how many entries of the three lists of a result are for the command
TimesReported(result, command) ==
    Occurrences(result.commands,
                LAMBDA a : a.name = command.name /\ a.type = Coalesce(command.type, ChatInput))
    + Occurrences(result.skipped, LAMBDA s : s.command = command)
    + Occurrences(result.errored, LAMBDA e : e.command = command)

\* C32: whenever the incremental deployment of a target returns normally,
\* the sizes of its added, skipped and errored lists add up to the number of
\* commands given for the target, and every command is reported as often as
\* it is in the list, so each entry of the list is in exactly one of them.
C32_EveryCommandAccounted ==
    (IncrementalMode /\ ReturnedNormally) =>
        LET result == deployed.value
        IN  /\ Len(result.commands) + Len(result.skipped) + Len(result.errored) = Len(commands)
            /\ \A i \in 1..Len(commands) :
                TimesReported(result, commands[i])
                    = Occurrences(commands, LAMBDA c : c = commands[i])

\* a target of two commands returned with one command created and one errored
C32_Witness ==
    /\ IncrementalMode /\ ReturnedNormally
    /\ Len(commands) = 2
    /\ Len(deployed.value.commands) = 1
    /\ Len(deployed.value.errored) = 1

\* call i is a create call that failed with 401, 403 or 404
FatalCreate(i) ==
    /\ calls[i].op = "post"
    /\ calls[i].status \in {401, 403, 404}

\* the create calls of the route that succeeded before call i
CreatedBefore(i) ==
    {j \in 1..(i - 1) :
        calls[j].op = "post" /\ calls[j].route = calls[i].route /\ calls[j].status = 200}

\* C33: when the incremental deployment of a target ends with a create call
\* failing with 401, 403 or 404, the report holds either no result for the
\* target or a bulkError with empty commands, skipped and errored lists, so
\* nothing created or skipped in the target before the failure is reported;
\* a guild failing with 403 or 404 in normal mode gets the bulkError result.
C33_PartialWorkDropped ==
    Done =>
        \A i \in CallIdx :
            FatalCreate(i) =>
                /\ HasReport
                /\ LET result == ResultOf(Report, calls[i].route)
                   IN  /\ result # Absent => IsBulkError(result[1], calls[i].status)
                       /\ (NormalMode /\ calls[i].route # Absent /\ calls[i].status \in {403, 404})
                              => result # Absent

\* a guild whose first create call succeeded and whose second failed with
\* 403 has a bulkError result
C33_Witness ==
    /\ Done /\ NormalMode /\ HasReport
    /\ \E i \in CallIdx :
        /\ FatalCreate(i)
        /\ calls[i].status = 403
        /\ calls[i].route # Absent
        /\ CreatedBefore(i) # {}
        /\ ResultOf(Report, calls[i].route) # Absent
        /\ IsBulkError(ResultOf(Report, calls[i].route)[1], 403)

\* the awaited deployment of a guild target has failed with 401
Guild401 ==
    /\ pc = "settled"
    /\ mode = "guild"
    /\ deployed.isError
    /\ deployed.status = 401

\* C34: when a guild target fails with 401 in normal mode, deploy returns at
\* that step a report whose global result and guild results are those held
\* before the failure, whose error is the failure, and which has no entry
\* for the failing guild nor for any guild still to be deployed.
C34_Guild401KeepsEarlier ==
    [][Guild401 =>
        /\ pc' = "done"
        /\ promise'.state = "fulfilled"
        /\ promise'.value # Absent
        /\ LET report == promise'.value[1]
           IN  /\ report.global = response.global
               /\ report.guilds = response.guilds
               /\ report.error = Some(401)
               /\ ~MapHas(report.guilds, guildId[1])
               /\ \A k \in 1..Len(guildQueue) : ~MapHas(report.guilds, guildQueue[k].id)]_vars

\* the global target and a first guild were reported, the second guild
\* failed with 401 and is not in the report
C34_Witness ==
    /\ Done /\ NormalMode /\ HasReport
    /\ Report.error = Some(401)
    /\ Report.global # Absent
    /\ Len(Report.guilds) = 1
    /\ calls[Len(calls)].status = 401
    /\ calls[Len(calls)].route # Absent
    /\ ~MapHas(Report.guilds, calls[Len(calls)].route[1])

\* call i is the list or overwrite call of the global target, and it failed
\* with a status outside 401, 403, 404
GlobalSoftFailure(i) ==
    /\ calls[i].route = Absent
    /\ calls[i].op \in {"get", "put"}
    /\ Failed(i)
    /\ calls[i].status \notin {401, 403, 404}

\* C35: in normal mode, when the list or overwrite call of the global target
\* fails with a status outside 401, 403, 404, the report's global result is
\* a bulkError with empty lists, the failure does not set the report's
\* error (only a guild failing with 401 later does), and every guild target
\* is deployed and reported unless a guild before it failed with 401.
C35_GlobalSoftFailure ==
    (Done /\ NormalMode) =>
        \A i \in CallIdx :
            GlobalSoftFailure(i) =>
                LET order == Targets.guildCommands
                    StoppedBy(j) == j > i /\ calls[j].route # Absent /\ calls[j].status = 401
                IN  /\ HasReport
                    /\ Report.global # Absent
                    /\ IsBulkError(Report.global[1], calls[i].status)
                    /\ Report.error # Absent => \E j \in CallIdx : StoppedBy(j)
                    /\ \A k \in 1..Len(order) :
                        \/ /\ MapHas(Report.guilds, order[k].id)
                           /\ \E j \in CallIdx : j > i /\ calls[j].route = Some(order[k].id)
                        \/ \E j \in CallIdx :
                            /\ StoppedBy(j)
                            /\ \A l \in 1..Len(order) :
                                calls[j].route = Some(order[l].id) => l <= k

\* the overwrite call of the global target failed with 500, and both guilds
\* were deployed after it
C35_Witness ==
    /\ Done /\ NormalMode /\ HasReport
    /\ Len(calls) > 0
    /\ GlobalSoftFailure(1)
    /\ calls[1].op = "put" /\ calls[1].status = 500
    /\ Report.error = Absent
    /\ Report.global # Absent
    /\ IsBulkError(Report.global[1], 500)
    /\ Len(Report.guilds) = 2
    /\ Len(Report.guilds[2].value.commands) > 0

\* two commands have the same effective type and the same name
SameKey(c, d) ==
    /\ Coalesce(c.type, ChatInput) = Coalesce(d.type, ChatInput)
    /\ c.name = d.name

\* C36: in incremental non-force mode the remote list the loop compares
\* with is the list as fetched before the loop, whatever the loop has
\* created since; when two entries of the target's list have the same
\* effective type and name and neither is up to date with the fetched list,
\* each of them gets its own create call, in order.
C36_SnapshotNotUpdated ==
    (Incremental /\ pc \in {"loop", "post"}) =>
        /\ existingCommands \in ExistingLists(guildId)
        /\ LET posts == PostsTo(Route(guildId))
           IN  \A i, j \in 1..Len(Decided) :
                (/\ i < j
                 /\ SameKey(commands[i], commands[j])
                 /\ ~UpToDate(commands[i])
                 /\ ~UpToDate(commands[j])) =>
                    \E k, l \in 1..Len(posts) :
                        /\ k < l
                        /\ posts[k].body = <<commands[i]>>
                        /\ posts[l].body = <<commands[j]>>

\* the same command is twice in the target's list, the fetched list holds a
\* stale command of its name, and both entries were created
C36_Witness ==
    /\ Incremental /\ pc = "loop"
    /\ Len(commands) = 2 /\ idx = 3
    /\ SameKey(commands[1], commands[2])
    /\ Len(existingCommands) = 1
    /\ Len(added) = 2
    /\ Len(PostsTo(Route(guildId))) = 2

(***************************************************************************)
(* Redeploying                                                             *)
(***************************************************************************)
\* the second deployment is under way or over
SecondDeploy == Cardinality(ListCalls) = 2

\* the list call of the second deployment
SecondList == CHOOSE i \in ListCalls : \A j \in ListCalls : j <= i

\* every create call of the first deployment succeeded
FirstAllCreated ==
    \A i \in 1..(SecondList - 1) : calls[i].op = "post" => calls[i].status = 200

\* no two commands of the list have the same effective type and name, and
\* the option and choice names of every command are unique in every list
UniquelyKeyed(cmds) ==
    /\ \A i, j \in 1..Len(cmds) : SameKey(cmds[i], cmds[j]) => i = j
    /\ \A i \in 1..Len(cmds) :
        cmds[i].options # Absent => WellNamed(cmds[i].options[1])

\* C37: after an incremental non-force deployment to a target in which
\* every create call succeeded, against a remote that stores each created
\* command with the remote-side defaults applied, a second incremental
\* non-force deployment of the same list to the same target, the list having
\* unique names per type and unique option and choice names per list, makes
\* no create call and returns every command as skipped, in order.
C37_Idempotent ==
    (SecondDeploy /\ FirstAllCreated /\ UniquelyKeyed(commands)) =>
        /\ \A i \in (SecondList + 1)..Len(calls) : calls[i].op # "post"
        /\ pc = "loop" => Len(skipped) = idx - 1
        /\ (pc = "settled" /\ ~deployed.isError) => IsAllSkipped(deployed.value, commands)

\* a list of two commands, one of them with options, was created in full by
\* the first deployment and skipped in full by the second
C37_Witness ==
    /\ SecondDeploy /\ FirstAllCreated /\ UniquelyKeyed(commands)
    /\ pc = "settled" /\ ~deployed.isError
    /\ Len(commands) = 2
    /\ \E i \in 1..2 : commands[i].options # Absent
    /\ Cardinality({i \in 1..Len(calls) : calls[i].op = "post"}) = 2
    /\ IsAllSkipped(deployed.value, commands)

(***************************************************************************)
(* The status line of outputResults                                        *)
(***************************************************************************)
\* outputResults has run with the summary disabled on a report without run
\* error that is not empty, not of dev mode, and not to be shown in full
SummaryDisabled ==
    /\ log.output # Absent
    /\ log.results[1].error = Absent
    /\ log.results[1].global # Absent \/ Len(log.results[1].guilds) # 0
    /\ ~Truthy(log.results[1].dev)
    /\ ~log.flags[1].debug /\ ~log.flags[1].dryRun /\ ~log.flags[1].full
    /\ log.flags[1].disableSummary

\* the results of the targets of a report
ResultsIn(results) ==
    results.global \o [k \in 1..Len(results.guilds) |-> results.guilds[k].value]

LoggedStatus == log.output[1][1].status

\* C38: with the summary disabled outputResults reports Successful only if
\* no target of the report has an errored command, Failed only if no target
\* has an added or skipped command, and Partially Successful when some
\* guild has both added and errored commands.
C38_StatusLine ==
    SummaryDisabled =>
        LET targets == ResultsIn(log.results[1])
        IN  /\ LoggedStatus = "Successful" =>
                \A k \in 1..Len(targets) : targets[k].errored = <<>>
            /\ LoggedStatus = "Failed" =>
                \A k \in 1..Len(targets) :
                    targets[k].commands = <<>> /\ targets[k].skipped = <<>>
            /\ (\E k \in 1..Len(log.results[1].guilds) :
                    /\ log.results[1].guilds[k].value.commands # <<>>
                    /\ log.results[1].guilds[k].value.errored # <<>>)
                  => LoggedStatus = "Partially Successful"

====
